---- MODULE Spec2Model ----
(***************************************************************************)
(* Ordered-fallback completion dispatcher and usage tracker of             *)
(* src/openrouter_client.py (class OpenRouterClient).                      *)
(*                                                                         *)
(* Python values: None is the empty tuple, any other optional value v is   *)
(* the one-element tuple <<v>>.  Strings are TLA+ strings, f-strings are   *)
(* built with \o.  Time is an abstract instant counter; every written      *)
(* usage record takes a new instant, so two records written one after the  *)
(* other never share a timestamp.  The log database, when configured, is   *)
(* reachable (psycopg2.connect and execute do not raise).                  *)
(***************************************************************************)
EXTENDS Integers, Sequences, FiniteSets, TLC

(* ------------------------------ bounds --------------------------------- *)
\* longest model list handed to chat_completion
MaxModels == 2
\* number of distinct model names the callers draw their lists from
NumPool == 2
\* last instant of the clock; every record and every tick consumes one
MaxTime == 3
\* pool workers that dispatch through the shared client at the same time
MaxWorkers == 2
\* longest ranking list of one period handed to the table update
MaxRank == 2
\* threads of the scheduler's pool, and request threads of the server
MaxThreads == 2
\* most lines of a recipe text
MaxLines == 2
\* most rows of the videos table
MaxVideos == 2
\* most videos of one suggest_folders_batch call
MaxSuggested == 3
\* most ingredient names of one check_and_resolve_ingredients call
MaxIngredients == 2

(* --------------------------- Python values ----------------------------- *)
None == <<>>
Some(v) == <<v>>
\* bool(x) of an Optional[str]
Truthy(o) == o # None /\ o # Some("")
\* f"{x}" of an Optional[str]
FStr(o) == IF o = None THEN "None" ELSE o[1]
\* `a or b`
PyOr(a, b) == IF Truthy(a) THEN a ELSE b

Range(s) == {s[i] : i \in 1..Len(s)}
Min2(a, b) == IF a < b THEN a ELSE b

(* --------------------------- module constants -------------------------- *)
TEXT_MODELS ==
  << "google/gemma-3-27b-it:free",
     "google/gemma-3-12b-it:free",
     "openai/gpt-oss-120b:free",
     "openai/gpt-oss-20b:free",
     "meta-llama/llama-3.3-70b-instruct:free" >>

\* a registry with one video model
VIDEO_CAPABLE_MODELS_One == << "custom/model" >>
VIDEO_CAPABLE_MODELS == <<>>

\* name under which the direct Gemini fallback is tracked and reported
GEMINI_DIRECT == "gemini-1.5-flash (direct)"

\* retention horizon of cleanup_old_logs (INTERVAL '1 year'), in instants
Year == 2

\* Names callers may pass: registry models and one model outside the
\* registry (refine_recipe(model=...) accepts any name).
PoolNames ==
  << TEXT_MODELS[1], "custom/model", TEXT_MODELS[2], TEXT_MODELS[3],
     TEXT_MODELS[4], TEXT_MODELS[5] >>
Pool == {PoolNames[i] : i \in 1..Min2(NumPool, Len(PoolNames))}

RECURSIVE SeqsUpTo(_, _)
SeqsUpTo(S, n) ==
  IF n = 0 THEN {<<>>}
  ELSE LET shorter == SeqsUpTo(S, n - 1)
       IN  shorter \cup {Append(s, x) : s \in {t \in shorter : Len(t) = n - 1}, x \in S}
ModelLists == SeqsUpTo(Pool, MaxModels)

(* ------------------------ what a provider answers ---------------------- *)
\* d.get(key, default) on a parsed JSON object
Get(d, key, default) == IF key \in DOMAIN d THEN d[key] ELSE default

ReportedUsage == [total_tokens |-> 10, prompt_tokens |-> 7, completion_tokens |-> 3]

\* Bodies a 200 response was seen to carry, as response.json() parses them:
\* a completion with usage, a completion whose content is null, an object
\* with neither choices nor usage, and an empty choices list.
OkBodies ==
  { [choices |-> << [message |-> [content |-> Some("X")]] >>, usage |-> ReportedUsage],
    [choices |-> << [message |-> [content |-> None]] >>, usage |-> ReportedUsage],
    [id |-> "gen-1"],
    [choices |-> <<>>, usage |-> ReportedUsage] }

\* HTTP responses of OpenRouter: status_code, json (None when response.json()
\* raises) and text.
Responses ==
       {[status_code |-> "200", json |-> Some(b), text |-> "{}"] : b \in OkBodies}
  \cup {[status_code |-> "429", json |-> None, text |-> ""]}
  \cup {[status_code |-> "500",
         json |-> Some([error |-> [message |-> Some("bad request")]]),
         text |-> "{}"]}
  \cup {[status_code |-> "502", json |-> None, text |-> ""]}

\* One OpenRouter call (_call_api): a response, a Timeout, another exception
PrimaryOutcomes ==
       {[kind |-> "response", response |-> r] : r \in Responses}
  \cup {[kind |-> "timeout"]}
  \cup {[kind |-> "exception", exc |-> "Connection aborted"]}

\* reading a 200 response: response.json(), then
\* data.get("choices", [{}])[0].get("message", {}).get("content", "") and
\* data.get("usage", {}); raised tells that this threw
Read200(r) ==
  IF r.json = None
  THEN [raised |-> TRUE, exc |-> "Expecting value"]
  ELSE LET data == r.json[1]
           choices == Get(data, "choices", << <<>> >>)
       IN  IF choices = <<>>
           THEN [raised |-> TRUE, exc |-> "list index out of range"]
           ELSE [raised |-> FALSE,
                 content |-> Get(Get(choices[1], "message", <<>>), "content", Some("")),
                 usage |-> Get(data, "usage", <<>>)]

\* error_msg of a response that is neither 200 nor 429
ErrorMsg(r) ==
  IF r.json = None
  THEN Some(r.text)
  ELSE Get(Get(r.json[1], "error", <<>>), "message", Some(r.text))

\* usage.get(key, -1), a count that is not reported marked as unknown
UsageGet_Unknown(u, key) == Get(u, key, -1)
\* usage.get(key, 0)
UsageGet(u, key) == Get(u, key, 0)

\* the model returned HTTP 200
Returned200(o) == o.kind = "response" /\ o.response.status_code = "200"
\* ... and the dispatch could read the body
Answered(o) == Returned200(o) /\ ~Read200(o.response).raised

\* One direct Gemini call: generate_content returns a response whose .text
\* is text (possibly empty), or raises.
SecondaryOutcomes ==
       {[kind |-> "text", text |-> t] : t \in {"Y", ""}}
  \cup {[kind |-> "raise", exc |-> e] : e \in {"quota exceeded"}}

(* ------------------------------- state --------------------------------- *)
VARIABLES
  api_key,             \* self.api_key is set
  gemini_key,          \* self.gemini_key is set
  log_db_url,          \* self.log_db_url is set
  gemini_initialized,  \* self._gemini_initialized
  model_stats,         \* self.model_stats
  ai_usage_logs,       \* rows of table ai_usage_logs
  next_id,             \* SERIAL sequence of ai_usage_logs.id
  now,                 \* the clock
  pc,                  \* position of the chat_completion call
  models,              \* its models argument
  pos,                 \* index of the model the for loop is at
  last_error,          \* its local last_error
  result,              \* what it returned
  start_status,        \* history: success counts reported when the dispatch began
  attempts,            \* history: provider calls of the current dispatch
  written,             \* history: every _update_model_status call
  written_before,      \* history: length of written when the dispatch began
  pruned,              \* history: rows deleted by cleanup_old_logs
  prev,                \* history: the dispatch before the current one
  workers,             \* pool threads inside _update_model_status
  tables,              \* ranking database: the committed tables
  batch,               \* the update_rankings_table_atomic call and its transaction
  observed,            \* history: what the latest SELECT of a reader returned
  sched,               \* ranking scheduler: job instances and batch runs
  refine,              \* the _refine_recipe_with_openrouter_auto call
  extracted_recipes,   \* rows of table extracted_recipes and its SERIAL
  extract,             \* the /extract-recipe request being served
  layout_rules,        \* rows of table layout_rules
  analysis,            \* the analyze_layout call
  videos,              \* rows of table videos
  daily,               \* the run_daily_ranking_batch call
  suggest,             \* the suggest_folders_batch call
  shopping             \* the check_and_resolve_ingredients call

vars ==
  << api_key, gemini_key, log_db_url, gemini_initialized, model_stats,
     ai_usage_logs, next_id, now, pc, models, pos, last_error, result,
     start_status, attempts, written, written_before, pruned, prev,
     workers, tables, batch, observed, sched, refine, extracted_recipes,
     extract, layout_rules, analysis, videos, daily, suggest, shopping >>

ranking == << tables, batch, observed >>
\* the services of the application around the client and the table update
services == << sched, refine, extracted_recipes, extract, layout_rules,
     analysis, videos, daily, suggest, shopping >>
\* the services beside one of them
beside_sched == << refine, extracted_recipes, extract, layout_rules,
     analysis, videos, daily, suggest, shopping >>
beside_refine == << sched, extracted_recipes, extract, layout_rules,
     analysis, videos, daily, suggest, shopping >>
beside_recipes == << sched, refine, layout_rules, analysis, videos, daily,
     suggest, shopping >>
beside_layout == << sched, refine, extracted_recipes, extract, videos,
     daily, suggest, shopping >>
beside_daily == << sched, refine, extracted_recipes, extract, layout_rules,
     analysis, suggest, shopping >>
beside_folders == << sched, refine, extracted_recipes, extract,
     layout_rules, analysis, videos, daily, shopping >>
beside_shopping == << sched, refine, extracted_recipes, extract,
     layout_rules, analysis, videos, daily, suggest >>
\* what lies beyond a single call on the client
beyond == << workers, ranking, services >>

config == << api_key, gemini_key, log_db_url >>
tracker == << model_stats, ai_usage_logs, next_id, now, written >>
frame ==
  << pc, models, pos, last_error, result, start_status, attempts,
     written_before, prev >>
\* all of the client
client == << config, gemini_initialized, tracker, frame, pruned >>

(* ------------------------------ tracker -------------------------------- *)
UnusedStats ==
  [last_used |-> None, status |-> "unused", success_count |-> 0,
   error_count |-> 0, last_error |-> None]

\* __init__: one entry per TEXT_MODELS model and one for the direct Gemini
InitialModelStats ==
  [m \in Range(TEXT_MODELS) \cup {GEMINI_DIRECT} |-> UnusedStats]

\* the in-memory half of _update_model_status
UpdatedStats(stats, model, success, error_msg, t) ==
  LET old == IF model \in DOMAIN stats THEN stats[model] ELSE UnusedStats
      new == IF success
             THEN [old EXCEPT !.last_used = Some(t),
                              !.status = "success",
                              !.success_count = @ + 1,
                              !.last_error = None]
             ELSE [old EXCEPT !.last_used = Some(t),
                              !.status = "error",
                              !.error_count = @ + 1,
                              !.last_error = error_msg]
  IN  [m \in DOMAIN stats \cup {model} |-> IF m = model THEN new ELSE stats[m]]

\* _log_to_db: INSERT of one row, nothing when no log database is set
LoggedRows(rows, id, model, status, error_message, tokens, t) ==
  IF ~log_db_url THEN rows
  ELSE rows \cup {[id |-> id, timestamp |-> t, model_name |-> model,
                   status |-> status, error_message |-> error_message,
                   tokens_used |-> tokens]}

\* _update_model_status(model, success, error_msg, tokens)
UpdateModelStatus(model, success, error_msg, tokens) ==
  LET status_str == IF success THEN "success" ELSE "error" IN
  /\ model_stats' = UpdatedStats(model_stats, model, success, error_msg, now)
  /\ ai_usage_logs' = LoggedRows(ai_usage_logs, next_id, model, status_str,
                                 error_msg, tokens, now)
  /\ next_id' = IF log_db_url THEN next_id + 1 ELSE next_id
  /\ now' = now + 1
  /\ written' = Append(written, [model |-> model, status |-> status_str,
                                 error_msg |-> error_msg, at |-> now])

RowsOf(rows, m) == {r \in rows : r.model_name = m}
\* ORDER BY timestamp ASC LIMIT 1
Newest_Ascending(rows) == CHOOSE r \in rows : \A q \in rows : r.timestamp <= q.timestamp
\* ORDER BY timestamp DESC LIMIT 1
Newest(rows) == CHOOSE r \in rows : \A q \in rows : q.timestamp <= r.timestamp

\* COUNT(*) without the FILTER clause
CountWhere_NoFilter(rows, st) == Cardinality(rows)
\* COUNT(*) FILTER (WHERE status = st)
CountWhere(rows, st) == Cardinality({r \in rows : r.status = st})

\* the aggregation query of get_model_status, one result row per model_name
DbRow(rows, m) ==
  LET mine == RowsOf(rows, m)
      errs == {r \in mine : r.status = "error"}
      current_status == Newest(mine).status
  IN  [success_count |-> CountWhere(mine, "success"),
       error_count |-> CountWhere(mine, "error"),
       last_used |-> Some(Newest(mine).timestamp),
       last_error |-> IF errs = {} THEN None ELSE Newest(errs).error_message,
       status |-> IF current_status # "" THEN current_status ELSE "unused"]

DbStats(rows) ==
  LET base == Range(TEXT_MODELS) \cup {GEMINI_DIRECT}
      named == {r.model_name : r \in rows}
  IN  [m \in base \cup named |-> IF m \in named THEN DbRow(rows, m) ELSE UnusedStats]

\* get_model_status()
GetModelStatus == IF ~log_db_url THEN model_stats ELSE DbStats(ai_usage_logs)

(* ------------------------------- Init ---------------------------------- *)
\* pool threads: none is inside _update_model_status
Workers == 1..MaxWorkers
IdleWorker == [pc |-> "idle"]

\* the client after __init__, in any configuration of the environment
InitClient ==
  /\ api_key \in BOOLEAN
  /\ gemini_key \in BOOLEAN
  /\ log_db_url \in BOOLEAN
  /\ gemini_initialized = FALSE
  /\ model_stats = InitialModelStats
  /\ ai_usage_logs = {}
  /\ next_id = 1
  /\ now = 0
  /\ pc = "idle"
  /\ models = <<>>
  /\ pos = 1
  /\ last_error = None
  /\ result = None
  /\ start_status = [m \in DOMAIN InitialModelStats |-> 0]
  /\ attempts = <<>>
  /\ written = <<>>
  /\ written_before = 0
  /\ pruned = {}
  /\ prev = None
  /\ workers = [w \in Workers |-> IdleWorker]

\* a database in which no ranking batch has run
FreshCatalog == [rankings |-> None, rankings_old |-> None, rankings_temp |-> None]
IdleBatch == [pc |-> "idle"]

\* threads that can run a ranking batch: the scheduler's pool threads and
\* the server's request threads
PoolThreadNames == << "pool-1", "pool-2", "pool-3" >>
RequestThreadNames == << "request-1", "request-2", "request-3" >>
PoolThreads == {PoolThreadNames[i] : i \in 1..Min2(MaxThreads, Len(PoolThreadNames))}
RequestThreads ==
  {RequestThreadNames[i] : i \in 1..Min2(MaxThreads, Len(RequestThreadNames))}
Runners == PoolThreads \cup RequestThreads
NotRunning == [pc |-> "idle", ret |-> None]
\* RankingScheduler(): the daily job is added and the scheduler started
\* only if FLASK_ENV is production
NewScheduler(production) ==
  [job |-> production, instances |-> 0, runs |-> [r \in Runners |-> NotRunning]]

\* the services around the client before any request
NoRefinement == [pc |-> "idle"]
\* an empty extracted_recipes table whose SERIAL hands out 1 next
NoRecipes == [rows |-> {}, seq |-> 1]
NoRequest == [pc |-> "idle"]
NoAnalysis == [pc |-> "idle"]
NoRun == [pc |-> "idle"]
NoSuggestion == [pc |-> "idle"]
NoShopping == [pc |-> "idle"]

\* the services around the client before any request, but for the one
\* named, which the caller sets up
InitServicesBut(service) ==
  /\ IF service = "scheduler" THEN TRUE ELSE sched = NewScheduler(FALSE)
  /\ IF service = "refinement" THEN TRUE ELSE refine = NoRefinement
  /\ IF service = "recipes" THEN TRUE ELSE extracted_recipes = NoRecipes
  /\ IF service = "recipes" THEN TRUE ELSE extract = NoRequest
  /\ IF service = "layout" THEN TRUE ELSE layout_rules = {}
  /\ IF service = "layout" THEN TRUE ELSE analysis = NoAnalysis
  /\ IF service = "daily" THEN TRUE ELSE videos = <<>>
  /\ IF service = "daily" THEN TRUE ELSE daily = NoRun
  /\ IF service = "folders" THEN TRUE ELSE suggest = NoSuggestion
  /\ IF service = "shopping" THEN TRUE ELSE shopping = NoShopping
InitServices == InitServicesBut("none")

Init ==
  /\ InitClient
  /\ tables = FreshCatalog
  /\ batch = IdleBatch
  /\ observed = None
  /\ InitServices

(* --------------------------- chat_completion --------------------------- *)
Idle == pc \in {"idle", "returned", "raised"}

\* `"error": last_error or ""`
FailureResult_NoDefault(err) ==
  [success |-> FALSE, content |-> None, model_used |-> None,
   error |-> PyOr(err, Some(""))[1], tokens_used |-> 0]
\* the dict returned on the failure path
FailureResult(err) ==
  [success |-> FALSE, content |-> None, model_used |-> None,
   error |-> PyOr(err, Some("All models failed"))[1], tokens_used |-> 0]

\* attributing the answer to the head of the list instead of the model asked
PrimarySuccess_HeadModel(model, read) ==
  [success |-> TRUE, content |-> read.content, model_used |-> Some(models[1]),
   tokens_used |-> UsageGet(read.usage, "total_tokens"),
   prompt_tokens |-> UsageGet(read.usage, "prompt_tokens"),
   completion_tokens |-> UsageGet(read.usage, "completion_tokens")]
\* the dict returned when a primary model answers 200
PrimarySuccess(model, read) ==
  [success |-> TRUE, content |-> read.content, model_used |-> Some(model),
   tokens_used |-> UsageGet(read.usage, "total_tokens"),
   prompt_tokens |-> UsageGet(read.usage, "prompt_tokens"),
   completion_tokens |-> UsageGet(read.usage, "completion_tokens")]

\* the dict returned when the direct Gemini call yields text
SecondarySuccess(text) ==
  [success |-> TRUE, content |-> Some(text),
   model_used |-> Some(GEMINI_DIRECT), tokens_used |-> 0]

\* what the dispatch leaves in last_error after a failed call to model
PrimaryLastError(model, o) ==
  CASE o.kind = "timeout"   -> Some("Timeout for " \o model)
    [] o.kind = "exception" -> Some(o.exc)
    [] Returned200(o)       -> Some(Read200(o.response).exc)
    [] o.kind = "response" /\ o.response.status_code = "429" ->
         Some("Rate limit exceeded for " \o model)
    [] OTHER                -> ErrorMsg(o.response)

\* the error_msg it hands to _update_model_status for that call
PrimaryRecordedError(o) ==
  CASE o.kind = "timeout"   -> Some("Timeout")
    [] o.kind = "exception" -> Some(o.exc)
    [] Returned200(o)       -> Some(Read200(o.response).exc)
    [] o.kind = "response" /\ o.response.status_code = "429" ->
         Some("Rate limit (429)")
    [] OTHER                ->
         Some("HTTP " \o o.response.status_code \o ": " \o FStr(ErrorMsg(o.response)))

\* keeping only the Gemini error
SecondaryLastError_Only(err, exc) == Some(exc)
\* last_error after the direct Gemini call raised
SecondaryLastError(err, exc) ==
  Some(FStr(err) \o " | Gemini fallback error: " \o exc)

SuccessCounts(status) == [m \in DOMAIN status |-> status[m].success_count]

\* the dispatch returned the answer of the first model of its list
FirstWon(atts) == Len(atts) = 1 /\ atts[1].index = 1 /\ Answered(atts[1].outcome)

\* history: what is kept of a dispatch when the next call begins
\* (only of a dispatch that returned its first model's answer)
Summary ==
  IF pc = "returned" /\ FirstWon(attempts)
  THEN Some([models |-> models, model_used |-> result.model_used,
             before |-> start_status])
  ELSE None

\* going on to the fallback when the key is missing
ChatCompletionRaise_FallThrough ==
  /\ Idle
  /\ ~api_key
  /\ pc' = "loop"
  /\ result' = None
  /\ models' = <<>>
  /\ pos' = 1
  /\ last_error' = None
  /\ attempts' = <<>>
  /\ prev' = Summary
  /\ written_before' = Len(written)
  /\ UNCHANGED << beyond, config, gemini_initialized, tracker, start_status, pruned >>
\* the guard of chat_completion without OPENROUTER_API_KEY, on the client
MissingKeyRaised ==
  /\ Idle
  /\ ~api_key
  /\ pc' = "raised"
  /\ result' = [raised |-> "OPENROUTER_API_KEY not set"]
  /\ models' = <<>>
  /\ pos' = 1
  /\ last_error' = None
  /\ attempts' = <<>>
  /\ prev' = Summary
  /\ written_before' = Len(written)
  /\ UNCHANGED << config, gemini_initialized, tracker, start_status, pruned >>
\* chat_completion without OPENROUTER_API_KEY: raise ValueError
ChatCompletionRaise ==
  /\ MissingKeyRaised
  /\ UNCHANGED beyond

\* the entry of chat_completion(messages, models), on the client
Entered(ms) ==
  /\ Idle
  /\ api_key
  /\ pc' = "loop"
  /\ models' = ms
  /\ pos' = 1
  /\ last_error' = None
  /\ result' = None
  /\ attempts' = <<>>
  /\ start_status' = SuccessCounts(GetModelStatus)
  /\ prev' = Summary
  /\ written_before' = Len(written)
  /\ UNCHANGED << config, gemini_initialized, tracker, pruned >>
\* chat_completion(messages, models): entry, last_error = None
ChatCompletionStart(ms) ==
  /\ Entered(ms)
  /\ UNCHANGED beyond

\* leaving out the model after the one that failed
NextPos_Skip(p) == p + 2
\* retrying the model that just failed
NextPos_Retry(p) == p
\* `for model in models` moving on after a failed call (continue)
NextPos(p) == p + 1

\* the exception, if any, that the body of the try statement raises on o:
\* _call_api raising, or the reading of a 200 response raising
Raised(o) ==
  CASE o.kind = "timeout"   -> Some("Timeout")
    [] o.kind = "exception" -> Some("Exception")
    [] Returned200(o) /\ Read200(o.response).raised -> Some("Exception")
    [] OTHER                -> None

\* a dispatcher with `except requests.exceptions.Timeout` alone
Caught_TimeoutOnly(class) == class = "Timeout"
\* the except clauses of the dispatcher: `except requests.exceptions.Timeout`
\* and `except Exception` (Timeout is a subclass of Exception)
Caught(class) == class \in {"Timeout", "Exception"}

\* the exception leaves chat_completion
Propagate(exc) ==
  /\ pc' = "raised"
  /\ result' = [raised |-> exc]
  /\ UNCHANGED << pos, last_error, tracker >>

\* one iteration of `for model in models`: the call to models[pos], made
\* after the provider calls `before`, is answered by o
ModelAnswers(before, o) ==
  /\ pos <= Len(models)
  /\ LET model == models[pos]
         atts == Append(before, [provider |-> model, index |-> pos, outcome |-> o])
     IN  /\ attempts' = atts
         /\ IF Answered(o)
            THEN /\ result' = PrimarySuccess(model, Read200(o.response))
                 /\ pc' = "returned"
                 /\ UNCHANGED << pos, last_error, tracker >>
            ELSE IF Raised(o) # None /\ ~Caught(Raised(o)[1])
            THEN Propagate(PrimaryLastError(model, o)[1])
            ELSE /\ now < MaxTime
                 /\ UpdateModelStatus(model, FALSE, PrimaryRecordedError(o), 0)
                 /\ last_error' = PrimaryLastError(model, o)
                 /\ pos' = NextPos(pos)
                 /\ pc' = "loop"
                 /\ result' = result
  /\ UNCHANGED << beyond, config, gemini_initialized, models, start_status,
                  written_before, pruned, prev >>

\* the iteration as one step: the call is made and answered
TryModel(o) ==
  /\ pc = "loop"
  /\ ModelAnswers(attempts, o)

\* never configuring Gemini from the key
GeminiAvailable_NoConfigure == gemini_initialized
\* _ensure_gemini_initialized() would return True
GeminiAvailable == gemini_initialized \/ gemini_key

\* after the loop, Gemini being available: the one direct call, made after
\* the provider calls `before`, is answered by o
SecondaryAnswers(before, o) ==
  /\ pos > Len(models)
  /\ GeminiAvailable
  /\ UNCHANGED << beyond, config, models, pos, start_status, written_before, pruned,
                  prev >>
  /\ gemini_initialized' = TRUE
  /\ attempts' = Append(before, [provider |-> GEMINI_DIRECT, index |-> 0, outcome |-> o])
  /\ CASE o.kind = "text" /\ o.text # "" ->
            /\ now < MaxTime
            /\ UpdateModelStatus(GEMINI_DIRECT, TRUE, None, 0)
            /\ result' = SecondarySuccess(o.text)
            /\ pc' = "returned"
            /\ UNCHANGED last_error
       [] o.kind = "text" /\ o.text = "" ->
            /\ result' = FailureResult(last_error)
            /\ pc' = "returned"
            /\ UNCHANGED << last_error, tracker >>
       [] o.kind = "raise" /\ ~Caught("Exception") ->
            /\ pc' = "raised"
            /\ result' = [raised |-> o.exc]
            /\ UNCHANGED << last_error, tracker >>
       [] o.kind = "raise" /\ Caught("Exception") ->
            /\ now < MaxTime
            /\ UpdateModelStatus(GEMINI_DIRECT, FALSE, Some(o.exc), 0)
            /\ last_error' = SecondaryLastError(last_error, o.exc)
            /\ result' = FailureResult(SecondaryLastError(last_error, o.exc))
            /\ pc' = "returned"

\* the fallback as one step: the call is made and answered
TrySecondary(o) ==
  /\ pc = "loop"
  /\ SecondaryAnswers(attempts, o)

\* the list is exhausted and Gemini is not configured: return the failure
ReturnFailure ==
  /\ pc = "loop"
  /\ pos > Len(models)
  /\ ~GeminiAvailable
  /\ pc' = "returned"
  /\ result' = FailureResult(last_error)
  /\ UNCHANGED << beyond, config, gemini_initialized, tracker, models, pos, last_error,
                  start_status, attempts, written_before, pruned, prev >>

(* --------------------------- analyze_video_url ------------------------- *)
\* the models argument of analyze_video_url: None (not given) or a list
VideoArgs == {None} \cup {Some(ms) : ms \in ModelLists}

\* the dict returned when a video model answers 200
VideoSuccess(model, read) ==
  [success |-> TRUE, content |-> read.content, model_used |-> Some(model),
   tokens_used |-> UsageGet(read.usage, "total_tokens"),
   prompt_tokens |-> UsageGet(read.usage, "prompt_tokens"),
   completion_tokens |-> UsageGet(read.usage, "completion_tokens"),
   needs_translation |-> FALSE]

\* the dict returned when the video list is exhausted
VideoFailureResult(err) ==
  [success |-> FALSE, content |-> None, model_used |-> None,
   error |-> PyOr(err, Some("All video models failed"))[1], tokens_used |-> 0,
   needs_translation |-> FALSE]

\* last_error of analyze_video_url after a failed call to model
VideoLastError(model, o) ==
  CASE o.kind = "timeout"   -> Some("Timeout for " \o model)
    [] o.kind = "exception" -> Some(o.exc)
    [] Returned200(o)       -> Some(Read200(o.response).exc)
    [] o.kind = "response" /\ o.response.status_code = "429" ->
         Some("Rate limit exceeded for " \o model)
    [] OTHER                -> ErrorMsg(o.response)

\* analyze_video_url without OPENROUTER_API_KEY: raise ValueError
AnalyzeVideoRaise ==
  /\ Idle
  /\ ~api_key
  /\ pc' = "video_raised"
  /\ result' = [raised |-> "OPENROUTER_API_KEY not set"]
  /\ models' = <<>>
  /\ pos' = 1
  /\ last_error' = None
  /\ attempts' = <<>>
  /\ prev' = Summary
  /\ written_before' = Len(written)
  /\ UNCHANGED << beyond, config, gemini_initialized, tracker, start_status, pruned >>

\* analyze_video_url(video_url, prompt, models): entry, last_error = None
AnalyzeVideoStart(arg) ==
  /\ Idle
  /\ api_key
  /\ pc' = "video_loop"
  /\ models' = IF arg = None THEN VIDEO_CAPABLE_MODELS ELSE arg[1]
  /\ pos' = 1
  /\ last_error' = None
  /\ result' = None
  /\ attempts' = <<>>
  /\ start_status' = SuccessCounts(GetModelStatus)
  /\ prev' = Summary
  /\ written_before' = Len(written)
  /\ UNCHANGED << beyond, config, gemini_initialized, tracker, pruned >>

\* one iteration of its `for model in models`, the provider answering o
TryVideoModel(o) ==
  /\ pc = "video_loop"
  /\ pos <= Len(models)
  /\ LET model == models[pos] IN
       /\ attempts' = Append(attempts, [provider |-> model, index |-> pos, outcome |-> o])
       /\ IF Answered(o)
          THEN /\ result' = VideoSuccess(model, Read200(o.response))
               /\ pc' = "video_returned"
               /\ UNCHANGED << pos, last_error >>
          ELSE /\ last_error' = VideoLastError(model, o)
               /\ pos' = pos + 1
               /\ UNCHANGED << pc, result >>
  /\ UNCHANGED << beyond, config, gemini_initialized, tracker, models, start_status,
                  written_before, pruned, prev >>

\* the video list is exhausted: return the failure
VideoReturnFailure ==
  /\ pc = "video_loop"
  /\ pos > Len(models)
  /\ pc' = "video_returned"
  /\ result' = VideoFailureResult(last_error)
  /\ UNCHANGED << beyond, config, gemini_initialized, tracker, models, pos, last_error,
                  start_status, attempts, written_before, pruned, prev >>

\* SpecTracker: credentials are set; the lists are the empty list, one
\* registry model and one model outside the registry; a model times out
\* or answers
InitTracker == Init /\ api_key
TrackerLists == {<<>>, << PoolNames[1] >>, << PoolNames[2] >>}
TrackerOutcomes ==
  {o \in PrimaryOutcomes :
     \/ o.kind = "timeout"
     \/ Answered(o) /\ Read200(o.response).content = Some("X")}

(* ------------ _update_model_status called from pool threads ------------ *)
\* check_all_models and suggest_folders_batch run their workers in a
\* ThreadPoolExecutor; every worker reaches _update_model_status on the one
\* shared client.  `stats["..._count"] += 1` is a read of the counter, an
\* addition and a write of the counter, and no lock is held across them.

\* the providers the workers record outcomes for, and their outcomes
WorkerModels == {TEXT_MODELS[1], GEMINI_DIRECT}
WorkerOutcomes ==
  {[success |-> TRUE, error_msg |-> None],
   [success |-> FALSE, error_msg |-> Some("Rate limit (429)")]}

\* the counter an outcome adds to
Counter(success) == IF success THEN "success_count" ELSE "error_count"
StatusStr(success) == IF success THEN "success" ELSE "error"

\* entry created if missing, last_used and status set
Touched(stats, model, success, t) ==
  LET old == IF model \in DOMAIN stats THEN stats[model] ELSE UnusedStats
      new == [old EXCEPT !.last_used = Some(t), !.status = StatusStr(success)]
  IN  [m \in DOMAIN stats \cup {model} |-> IF m = model THEN new ELSE stats[m]]

\* counter written as the value read plus one, last_error set
Stored(stats, model, success, error_msg, seen) ==
  [stats EXCEPT ![model][Counter(success)] = seen + 1,
                ![model].last_error = IF success THEN None ELSE error_msg]

Busy == {w \in Workers : workers[w].pc # "idle"}

\* worker w enters _update_model_status(m, success, error_msg) and runs it
\* up to the read of the counter
WorkerLoad(w, m, o) ==
  /\ workers[w].pc = "idle"
  /\ now + Cardinality(Busy) < MaxTime
  /\ model_stats' = Touched(model_stats, m, o.success, now)
  /\ workers' = [workers EXCEPT ![w] =
       [pc |-> "adding", model |-> m, success |-> o.success,
        error_msg |-> o.error_msg,
        seen |-> Touched(model_stats, m, o.success, now)[m][Counter(o.success)]]]
  /\ UNCHANGED << config, gemini_initialized, ai_usage_logs, next_id, now,
                  written, frame, pruned, ranking, services >>

\* ... writes the counter and last_error
WorkerStore(w) ==
  /\ workers[w].pc = "adding"
  /\ model_stats' = Stored(model_stats, workers[w].model, workers[w].success,
                           workers[w].error_msg, workers[w].seen)
  /\ workers' = [workers EXCEPT ![w].pc = "logging"]
  /\ UNCHANGED << config, gemini_initialized, ai_usage_logs, next_id, now,
                  written, frame, pruned, ranking, services >>

\* ... and inserts the usage record (_log_to_db), one INSERT of its own
WorkerLog(w) ==
  LET me == workers[w] IN
  /\ me.pc = "logging"
  /\ ai_usage_logs' = LoggedRows(ai_usage_logs, next_id, me.model,
                                 StatusStr(me.success), me.error_msg, 0, now)
  /\ next_id' = IF log_db_url THEN next_id + 1 ELSE next_id
  /\ now' = now + 1
  /\ written' = Append(written, [model |-> me.model, status |-> StatusStr(me.success),
                                 error_msg |-> me.error_msg, at |-> now])
  /\ workers' = [workers EXCEPT ![w] = IdleWorker]
  /\ UNCHANGED << config, gemini_initialized, model_stats, frame, pruned, ranking, services >>

\* the workers of one pool, recording outcomes through the shared client
InitWorkers == Init /\ api_key /\ gemini_key
NextWorkers ==
  \/ \E w \in Workers, m \in WorkerModels, o \in WorkerOutcomes : WorkerLoad(w, m, o)
  \/ \E w \in Workers : WorkerStore(w)
  \/ \E w \in Workers : WorkerLog(w)

SpecWorkers == InitWorkers /\ [][NextWorkers]_vars

(* ----------------------------- maintenance ----------------------------- *)
\* a DELETE without the interval: every row written before now
Expired_NoHorizon(rows, t) == {r \in rows : r.timestamp < t}
\* rows matched by  timestamp < NOW() - INTERVAL '1 year'
Expired(rows, t) == {r \in rows : r.timestamp < t - Year}

\* cleanup_old_logs()
CleanupOldLogs ==
  /\ IF log_db_url
     THEN /\ ai_usage_logs' = ai_usage_logs \ Expired(ai_usage_logs, now)
          /\ pruned' = pruned \cup Expired(ai_usage_logs, now)
     ELSE UNCHANGED << ai_usage_logs, pruned >>
  /\ UNCHANGED << beyond, config, gemini_initialized, model_stats, next_id, now, written, frame >>

\* time passes
Tick ==
  /\ now < MaxTime
  /\ now' = now + 1
  /\ UNCHANGED << beyond, config, gemini_initialized, model_stats, ai_usage_logs, next_id,
                  written, pruned, frame >>

\* one chat_completion call on a newly constructed client: every
\* configuration, every model list, every answer of the providers
Next ==
  \/ pc = "idle" /\ ChatCompletionRaise
  \/ pc = "idle" /\ \E ms \in ModelLists : ChatCompletionStart(ms)
  \/ \E o \in PrimaryOutcomes : TryModel(o)
  \/ \E o \in SecondaryOutcomes : TrySecondary(o)
  \/ ReturnFailure

Spec == Init /\ [][Next]_vars

\* one call of either entry point, chat_completion or analyze_video_url,
\* on a newly constructed client
NextEntry ==
  \/ pc = "idle" /\ ChatCompletionRaise
  \/ pc = "idle" /\ \E ms \in ModelLists : ChatCompletionStart(ms)
  \/ \E o \in PrimaryOutcomes : TryModel(o)
  \/ \E o \in SecondaryOutcomes : TrySecondary(o)
  \/ ReturnFailure
  \/ pc = "idle" /\ AnalyzeVideoRaise
  \/ pc = "idle" /\ \E arg \in VideoArgs : AnalyzeVideoStart(arg)
  \/ \E o \in PrimaryOutcomes : TryVideoModel(o)
  \/ VideoReturnFailure

SpecEntry == Init /\ [][NextEntry]_vars

(* ------------------------- translate_to_japanese ----------------------- *)
\* translate_to_japanese hands TEXT_MODELS to chat_completion; a modelled
\* dispatch follows the registry as far as its first MaxModels entries
TranslationModels_Single == << TEXT_MODELS[1] >>
TranslationModels == SubSeq(TEXT_MODELS, 1, Min2(MaxModels, Len(TEXT_MODELS)))

\* translate_to_japanese(text)
TranslateToJapanese == ChatCompletionStart(TranslationModels)

\* one translation request on a newly constructed client
NextTranslate ==
  \/ pc = "idle" /\ ChatCompletionRaise
  \/ pc = "idle" /\ TranslateToJapanese
  \/ \E o \in PrimaryOutcomes : TryModel(o)
  \/ \E o \in SecondaryOutcomes : TrySecondary(o)
  \/ ReturnFailure

SpecTranslate == Init /\ [][NextTranslate]_vars

(* ------------------- provider calls as request and answer -------------- *)
\* the outcome slot of a provider call that has been sent and not answered
InFlight == [kind |-> "in flight"]

\* a POST that returns at once and leaves the answer to a callback
AfterPost_Async == "loop"
\* requests.post(..., timeout=120) is synchronous: control stays inside
\* _call_api until the response, the timeout or an exception
AfterPost == "calling"

\* _call_api(model, ...): the request to models[pos] is sent
CallApi ==
  /\ pc = "loop"
  /\ pos <= Len(models)
  /\ attempts' = Append(attempts, [provider |-> models[pos], index |-> pos,
                                   outcome |-> InFlight])
  /\ pc' = AfterPost
  /\ UNCHANGED << beyond, config, gemini_initialized, tracker, models, pos, last_error,
                  result, start_status, written_before, pruned, prev >>

\* ... and is answered by o
ApiReturns(o) ==
  /\ pc = "calling"
  /\ ModelAnswers(SubSeq(attempts, 1, Len(attempts) - 1), o)

\* model.generate_content(prompt): the request to Gemini is sent
CallGemini ==
  /\ pc = "loop"
  /\ pos > Len(models)
  /\ GeminiAvailable
  /\ gemini_initialized' = TRUE
  /\ attempts' = Append(attempts, [provider |-> GEMINI_DIRECT, index |-> 0,
                                   outcome |-> InFlight])
  /\ pc' = "generating"
  /\ UNCHANGED << beyond, config, tracker, models, pos, last_error, result, start_status,
                  written_before, pruned, prev >>

\* ... and is answered by o
GeminiReturns(o) ==
  /\ pc = "generating"
  /\ SecondaryAnswers(SubSeq(attempts, 1, Len(attempts) - 1), o)

\* one chat_completion call, every provider call in two steps
NextFlight ==
  \/ pc = "idle" /\ ChatCompletionRaise
  \/ pc = "idle" /\ \E ms \in ModelLists : ChatCompletionStart(ms)
  \/ CallApi
  \/ \E o \in PrimaryOutcomes : ApiReturns(o)
  \/ CallGemini
  \/ \E o \in SecondaryOutcomes : GeminiReturns(o)
  \/ ReturnFailure

SpecFlight == Init /\ [][NextFlight]_vars

\* a step of the dispatch in progress: the interpreter runs on, and every
\* provider call returns or times out (requests.post has timeout=120)
DispatchStep ==
  \/ CallApi
  \/ \E o \in PrimaryOutcomes : ApiReturns(o)
  \/ CallGemini
  \/ \E o \in SecondaryOutcomes : GeminiReturns(o)
  \/ ReturnFailure
\* one chat_completion call whose dispatch is not left standing
SpecLive == Init /\ [][NextFlight]_vars /\ WF_vars(DispatchStep)

\* the client over time: call after call, the passing of time, maintenance
NextTracker ==
  \/ \E ms \in TrackerLists : ChatCompletionStart(ms)
  \/ \E o \in TrackerOutcomes : TryModel(o)
  \/ \E o \in SecondaryOutcomes : TrySecondary(o)
  \/ ReturnFailure
  \/ CleanupOldLogs
  \/ Tick

SpecTracker == InitTracker /\ [][NextTracker]_vars

(* ------------------ ranking table update (batch_processor) ------------- *)
\* The update runs in one PostgreSQL transaction on a psycopg2 connection.
\* PostgreSQL DDL is transactional: what the transaction dropped, created,
\* inserted or renamed is seen by other sessions from its commit on and is
\* undone by a rollback; ALTER TABLE takes an ACCESS EXCLUSIVE lock that is
\* held to the end of the transaction, and a SELECT on the locked table
\* waits for it.

\* the periods of the ranking, in the order of the dict (the first two of
\* daily, weekly, monthly, all_time)
Periods == << "daily", "weekly" >>
\* (unique_video_id, count) pairs of a ranking list
Entries == {<< "v1", 2 >>, << "v2", 1 >>}
RankingLists == SeqsUpTo(Entries, MaxRank)
\* ranking_data: one list per period
RankingData == [1..Len(Periods) -> RankingLists]
\* metadata: video id -> fields, for the videos whose metadata was fetched
NoMetadata == [v \in {} |-> None]
MetadataChoices ==
  { NoMetadata,
    [v \in {"v1"} |-> [platform |-> "youtube", title |-> Some("t1")]] }

\* the (period_type, rank_position, video_id, count) the nested loops visit
RECURSIVE Flatten(_, _)
Flatten(data, p) ==
  IF p > Len(Periods) THEN <<>>
  ELSE [k \in 1..Len(data[p]) |->
          [period_type |-> Periods[p], rank_position |-> k,
           unique_video_id |-> data[p][k][1], count |-> data[p][k][2]]]
       \o Flatten(data, p + 1)

\* the VALUES of one INSERT
Row(item, metadata) ==
  LET video_metadata == IF item.unique_video_id \in DOMAIN metadata
                        THEN metadata[item.unique_video_id] ELSE <<>>
  IN  [unique_video_id |-> item.unique_video_id,
       platform |-> Get(video_metadata, "platform", "unknown"),
       rank_position |-> item.rank_position,
       period_type |-> item.period_type,
       count |-> item.count,
       title |-> Get(video_metadata, "title", None)]

\* UNIQUE(unique_video_id, period_type)
ViolatesUnique(rows, row) ==
  \E i \in 1..Len(rows) :
    /\ rows[i].unique_video_id = row.unique_video_id
    /\ rows[i].period_type = row.period_type

\* a connection on which every statement commits by itself
Autocommit_On == TRUE
\* conn.autocommit = False
Autocommit == FALSE

InProgress == batch.pc \notin {"idle", "done"}

\* cur.execute(statement): the statement turns the catalog the transaction
\* sees into view, goes on at pc, and takes the lock on rankings if lock
Execute(view, next_pc, lock) ==
  /\ batch' = [batch EXCEPT !.view = view, !.pc = next_pc,
                            !.locked = IF Autocommit THEN FALSE ELSE @ \/ lock]
  /\ tables' = IF Autocommit THEN view ELSE tables
  /\ UNCHANGED << observed, workers, services, config, gemini_initialized, tracker, frame,
                  pruned >>

\* update_rankings_table_atomic(ranking_data, metadata): connection opened
UpdateBegin(data, metadata) ==
  /\ batch.pc = "idle"
  /\ batch' = [pc |-> "drop_temp", items |-> Flatten(data, 1),
               metadata |-> metadata, view |-> tables, before |-> tables,
               locked |-> FALSE, ret |-> None]
  /\ observed' = None
  /\ UNCHANGED << tables, workers, services, config, gemini_initialized, tracker, frame,
                  pruned >>

\* DROP TABLE IF EXISTS rankings_temp
DropTemp ==
  /\ batch.pc = "drop_temp"
  /\ Execute([batch.view EXCEPT !.rankings_temp = None], "create_temp", FALSE)

\* CREATE TABLE rankings_temp (...) and its two indexes
CreateTemp ==
  /\ batch.pc = "create_temp"
  /\ Execute([batch.view EXCEPT !.rankings_temp = Some(<<>>)], "insert", FALSE)

InsertedSoFar == Len(batch.view.rankings_temp[1])
NextRow == Row(batch.items[InsertedSoFar + 1], batch.metadata)

\* INSERT INTO rankings_temp of the next (period, rank) of the loops
InsertRow ==
  /\ batch.pc = "insert"
  /\ InsertedSoFar < Len(batch.items)
  /\ ~ViolatesUnique(batch.view.rankings_temp[1], NextRow)
  /\ Execute([batch.view EXCEPT !.rankings_temp = Some(Append(@[1], NextRow))],
             "insert", FALSE)

\* DROP TABLE IF EXISTS rankings_old
DropOld ==
  /\ batch.pc = "insert"
  /\ InsertedSoFar = Len(batch.items)
  /\ Execute([batch.view EXCEPT !.rankings_old = None], "rename_old", FALSE)

\* DO $$ IF EXISTS (... 'rankings') THEN ALTER TABLE rankings RENAME TO
\* rankings_old $$
RenameOld ==
  /\ batch.pc = "rename_old"
  /\ IF batch.view.rankings # None
     THEN Execute([batch.view EXCEPT !.rankings_old = batch.view.rankings,
                                     !.rankings = None], "rename_temp", TRUE)
     ELSE Execute(batch.view, "rename_temp", FALSE)

\* ALTER TABLE rankings_temp RENAME TO rankings
RenameTemp ==
  /\ batch.pc = "rename_temp"
  /\ Execute([batch.view EXCEPT !.rankings = batch.view.rankings_temp,
                                !.rankings_temp = None], "commit", FALSE)

\* conn.commit(); return True
Commit ==
  /\ batch.pc = "commit"
  /\ tables' = batch.view
  /\ batch' = [batch EXCEPT !.pc = "done", !.locked = FALSE, !.ret = Some(TRUE)]
  /\ UNCHANGED << observed, workers, services, config, gemini_initialized, tracker, frame,
                  pruned >>

\* the connection or the statement about to run (a DROP, CREATE, INSERT or
\* ALTER; the INSERT does on a unique violation) raises: except Exception,
\* conn.rollback(), return False
UpdateFails ==
  /\ InProgress
  /\ batch.pc # "commit"
  /\ tables' = tables
  /\ batch' = [batch EXCEPT !.pc = "done", !.locked = FALSE, !.ret = Some(FALSE),
                            !.view = tables]
  /\ UNCHANGED << observed, workers, services, config, gemini_initialized, tracker, frame,
                  pruned >>

\* get_rankings: SELECT ... FROM rankings in another session; it waits
\* while the transaction holds the lock on the table
SelectRankings ==
  /\ ~(InProgress /\ batch.locked)
  /\ observed' = Some(tables.rankings)
  /\ UNCHANGED << tables, batch, workers, services, config, gemini_initialized, tracker,
                  frame, pruned >>

\* the database before a call: no batch has run yet, one batch has run, or
\* several have
PreviousRows ==
  << Row([period_type |-> "daily", rank_position |-> 1,
          unique_video_id |-> "v2", count |-> 1], NoMetadata) >>
OlderRows ==
  << Row([period_type |-> "daily", rank_position |-> 1,
          unique_video_id |-> "v1", count |-> 2], NoMetadata) >>
InitialCatalogs ==
  { FreshCatalog,
    [rankings |-> Some(PreviousRows), rankings_old |-> None, rankings_temp |-> None],
    [rankings |-> Some(PreviousRows), rankings_old |-> Some(OlderRows),
     rankings_temp |-> None] }

InitRanking ==
  /\ InitClient
  /\ api_key /\ gemini_key /\ log_db_url
  /\ tables \in InitialCatalogs
  /\ batch = IdleBatch
  /\ observed = None
  /\ InitServices

\* one table update with readers beside it
NextRanking ==
  \/ \E data \in RankingData, metadata \in MetadataChoices : UpdateBegin(data, metadata)
  \/ DropTemp
  \/ CreateTemp
  \/ InsertRow
  \/ DropOld
  \/ RenameOld
  \/ RenameTemp
  \/ Commit
  \/ UpdateFails
  \/ SelectRankings

SpecRanking == InitRanking /\ [][NextRanking]_vars

(* ------------- ranking batch runs (ranking_scheduler) ------------------ *)
\* The daily job runs run_daily_ranking_job on a pool thread of the
\* BackgroundScheduler; the executor counts the running instances of a job
\* and does not submit a run when the count has reached max_instances.
\* POST /rankings/update runs run_manual_update on the request thread.
\* Both call batch_processor.run_daily_ranking_batch.

\* add_job(..., max_instances=1)
MaxInstances == 1

Running(r) == sched.runs[r].pc # "idle"
RunsInProgress == {r \in Runners : Running(r)}

SchedStep(next) ==
  /\ sched' = next
  /\ UNCHANGED << client, workers, ranking, beside_sched >>

\* a run of thread r ends with ret; a pool thread gives its instance back
Ended(r, ret) ==
  [sched EXCEPT !.runs[r] = [pc |-> "idle", ret |-> Some(ret)],
                !.instances = IF r \in PoolThreads THEN @ - 1 ELSE @]

\* the cron trigger fires: the executor submits run_daily_ranking_job to
\* pool thread r unless max_instances is reached
JobFires(r) ==
  /\ sched.job
  /\ r \in PoolThreads /\ ~Running(r)
  /\ sched.instances < MaxInstances
  /\ SchedStep([sched EXCEPT !.instances = @ + 1,
                             !.runs[r] = [pc |-> "calculating", ret |-> None]])

\* manual_ranking_update -> run_manual_update on request thread r
ManualUpdate(r) ==
  /\ r \in RequestThreads /\ ~Running(r)
  /\ SchedStep([sched EXCEPT !.runs[r] = [pc |-> "calculating", ret |-> None]])

\* step 1 of run_daily_ranking_batch: get_top_video_ids_by_periods; no
\* entry for any period returns False
RunCalculated(r, empty) ==
  /\ sched.runs[r].pc = "calculating"
  /\ SchedStep(IF empty THEN Ended(r, FALSE)
               ELSE [sched EXCEPT !.runs[r].pc = "fetching"])

\* step 2: get_complete_metadata_for_rankings
RunFetched(r) ==
  /\ sched.runs[r].pc = "fetching"
  /\ SchedStep([sched EXCEPT !.runs[r].pc = "updating"])

\* step 3: update_rankings_table_atomic returns success
RunUpdated(r, success) ==
  /\ sched.runs[r].pc = "updating"
  /\ SchedStep(Ended(r, success))

\* except Exception in run_daily_ranking_batch: return False
RunRaises(r) ==
  /\ Running(r)
  /\ SchedStep(Ended(r, FALSE))

InitScheduler ==
  /\ InitClient
  /\ api_key /\ gemini_key /\ log_db_url
  /\ tables = FreshCatalog /\ batch = IdleBatch /\ observed = None
  /\ InitServicesBut("scheduler")
  /\ sched \in {NewScheduler(production) : production \in BOOLEAN}

NextScheduler ==
  \/ \E r \in PoolThreads : JobFires(r)
  \/ \E r \in RequestThreads : ManualUpdate(r)
  \/ \E r \in Runners, empty \in BOOLEAN : RunCalculated(r, empty)
  \/ \E r \in Runners : RunFetched(r)
  \/ \E r \in Runners, success \in BOOLEAN : RunUpdated(r, success)
  \/ \E r \in Runners : RunRaises(r)

SpecScheduler == InitScheduler /\ [][NextScheduler]_vars

(* --------- automatic recipe refinement (recipe_extractor) -------------- *)
\* _refine_recipe_with_openrouter_auto calls openrouter_client.refine_recipe
\* with model=None, reads the answer, translates a text that is not Japanese
\* through translate_to_japanese, and on a failed dispatch or on any
\* exception goes on to _refine_recipe_with_gemini.

\* refine_recipe: models = [model] if model else TEXT_MODELS
RefineModels(model) == IF Truthy(model) THEN << model[1] >> ELSE TranslationModels

\* _refine_recipe_with_gemini(raw_recipe_text, 'gemini-2.0-flash-lite')
FallbackModel == "gemini-2.0-flash-lite"

\* _ensure_gemini_initialized of the extractor never finding a key
FallbackConfigured_Never == FALSE
\* _ensure_gemini_initialized of the extractor: GEMINI_API_KEY is set
FallbackConfigured == gemini_key

\* what the content of a successful dispatch is read as: the JSON object
\* {"no_recipe": true}, a JSON object holding a recipe, text that is not
\* JSON, or JSON that is not an object (recipe_json.get raises)
Readings == {"no_recipe", "recipe", "not_json", "not_object"}
ReadingsOf(content) ==
  IF content = None THEN {"not_a_string"}
  ELSE IF content = Some("") THEN {"not_json"}
  ELSE Readings

\* what generate_content of the fallback model yields, and what
\* _refine_recipe_with_gemini makes of it
FallbackOutcomes ==
       {[kind |-> "text", text |-> "Y", status |-> st] :
          st \in {"success", "no_recipe", "failed"}}
  \cup {[kind |-> "text", text |-> "", status |-> "failed"]}
  \cup {[kind |-> "raise", status |-> "failed"]}

\* how the dispatch of refine_recipe ended
DispatchEnd ==
  IF pc = "raised" THEN "raised"
  ELSE IF result.success THEN "success" ELSE "failure"

RefineBeside == UNCHANGED << workers, ranking, beside_refine >>

\* _refine_recipe_with_openrouter_auto(raw_recipe_text): refine_recipe is
\* called and enters chat_completion
RefineAuto ==
  /\ refine.pc = "idle"
  /\ refine' = [pc |-> "refining", dispatch |-> None, extra |-> <<>>, ret |-> None]
  /\ Entered(RefineModels(None)) \/ MissingKeyRaised
  /\ RefineBeside

\* return self._refine_recipe_with_gemini(...), up to generate_content
ToFallback(end) ==
  IF FallbackConfigured
  THEN [refine EXCEPT !.pc = "fallback", !.dispatch = Some(end)]
  ELSE [refine EXCEPT !.pc = "done", !.dispatch = Some(end),
                      !.ret = Some([refinement_status |-> "failed",
                                    model_used |-> Some(FallbackModel)])]

\* the dispatch is over: the handling of its result (l.808-880)
RefineHandles(reading, japanese) ==
  /\ refine.pc = "refining"
  /\ pc \in {"returned", "raised"}
  /\ IF DispatchEnd # "success"
     THEN /\ refine' = ToFallback(DispatchEnd)
          /\ UNCHANGED client
     ELSE /\ reading \in ReadingsOf(result.content)
          /\ CASE reading \in {"not_a_string", "not_object"} ->
                    /\ refine' = ToFallback("success")
                    /\ UNCHANGED client
               [] reading = "no_recipe" ->
                    /\ refine' = [refine EXCEPT !.pc = "done", !.dispatch = Some("success"),
                                     !.ret = Some([refinement_status |-> "no_recipe",
                                                   model_used |-> result.model_used])]
                    /\ UNCHANGED client
               [] reading \in {"recipe", "not_json"} /\ japanese ->
                    /\ refine' = [refine EXCEPT !.pc = "done", !.dispatch = Some("success"),
                                     !.ret = Some([refinement_status |-> "success",
                                                   model_used |-> result.model_used])]
                    /\ UNCHANGED client
               [] reading \in {"recipe", "not_json"} /\ ~japanese ->
                    /\ refine' = [refine EXCEPT !.pc = "translating",
                                     !.dispatch = Some("success"),
                                     !.ret = Some([refinement_status |-> "success",
                                                   model_used |-> result.model_used])]
                    /\ Entered(TranslationModels)
  /\ RefineBeside

\* translate_to_japanese returned; the text is returned translated or not
TranslationReturns ==
  /\ refine.pc = "translating"
  /\ pc = "returned"
  /\ refine' = [refine EXCEPT !.pc = "done"]
  /\ UNCHANGED client
  /\ RefineBeside

\* model.generate_content(prompt) of the fallback model and what follows
GeminiRefines(o) ==
  /\ refine.pc = "fallback"
  /\ refine' = [refine EXCEPT !.pc = "done",
                   !.extra = Append(@, [model |-> FallbackModel, kind |-> o.kind]),
                   !.ret = Some([refinement_status |-> o.status,
                                 model_used |-> Some(FallbackModel)])]
  /\ UNCHANGED client
  /\ RefineBeside

InitRefine == Init

NextRefine ==
  \/ RefineAuto
  \/ \E o \in PrimaryOutcomes : TryModel(o)
  \/ \E o \in SecondaryOutcomes : TrySecondary(o)
  \/ ReturnFailure
  \/ \E reading \in Readings \cup {"not_a_string"}, japanese \in BOOLEAN :
       RefineHandles(reading, japanese)
  \/ TranslationReturns
  \/ \E o \in FallbackOutcomes : GeminiRefines(o)

SpecRefine == InitRefine /\ [][NextRefine]_vars

(* ---------------- recipe cache (api_routes.extract_recipe) ------------- *)
\* A recipe text is a sequence of lines: a section header, or a line with
\* an optional numbering ("1. ") before its body.
Header(section) == [kind |-> "header", section |-> section]
Numbered(body) == [kind |-> "line", number |-> "1. ", body |-> body]
RecipeLines ==
  {Header("ingredients"), Header("steps"), Numbered("cut"), Numbered("")}
RecipeTexts == SeqsUpTo(RecipeLines, MaxLines)

\* parse_recipe_text(recipe_text)['steps']: under the steps header, every
\* line whose text after the numbering is not empty
RECURSIVE StepsFrom(_, _, _)
StepsFrom(lines, i, section) ==
  IF i > Len(lines) THEN <<>>
  ELSE IF lines[i].kind = "header" THEN StepsFrom(lines, i + 1, lines[i].section)
  ELSE IF section = "steps" /\ lines[i].body # ""
       THEN << lines[i].body >> \o StepsFrom(lines, i + 1, section)
       ELSE StepsFrom(lines, i + 1, section)
\* `if not recipe_text` returns no steps for None and for the empty text
ParsedSteps(recipe_text) ==
  IF recipe_text = None \/ recipe_text = Some(<<>>) THEN <<>>
  ELSE StepsFrom(recipe_text[1], 1, "none")

\* (platform, unique_video_id) of the requests
RecipeVideos == {<< "youtube", "a" >>, << "tiktok", "a" >>}

\* what recipe_extractor.extract_recipe(video_url) does: it returns a
\* result, raises ValueError, or raises something else
Extractions ==
       {[kind |-> "result", recipe_text |-> t, ai_model |-> m, tokens_used |-> n] :
          t \in {Some(x) : x \in RecipeTexts} \cup {None},
          m \in {None, Some("gemini-2.0-flash-lite")},
          n \in {None, Some(0), Some(10)}}
  \cup {[kind |-> "ValueError"], [kind |-> "Exception"]}

\* `if ai_model and tokens_used > 0` raises TypeError when tokens_used is None
CostRaises(x) == Truthy(x.ai_model) /\ x.tokens_used = None

RowsFor(video) == {row \in extracted_recipes.rows : row.video = video}

RecipesBeside == UNCHANGED << client, workers, ranking, beside_recipes >>

\* POST /extract-recipe up to the end of the cache check (l.760-833)
ExtractRecipe(video, hit) ==
  /\ extract.pc \in {"idle", "done"}
  /\ IF RowsFor(video) = {} THEN hit = None ELSE hit \in {Some(row) : row \in RowsFor(video)}
  /\ LET request == [pc |-> "extracting", video |-> video, hit |-> hit,
                      fresh |-> None, inserted |-> None, response |-> None]
     IN  IF hit = None
         THEN /\ extract' = request
              /\ UNCHANGED extracted_recipes
         ELSE IF ParsedSteps(Some(hit[1].extracted_text)) = <<>>
         THEN /\ extract' = request
              /\ extracted_recipes' =
                   [extracted_recipes EXCEPT
                      !.rows = {row \in @ : row.recipe_id # hit[1].recipe_id}]
         ELSE /\ extract' =
                   [request EXCEPT
                      !.pc = "done",
                      !.response = Some([status |-> 200, cached |-> Some(TRUE),
                                         recipe_text |-> Some(hit[1].extracted_text),
                                         steps |-> ParsedSteps(Some(hit[1].extracted_text))])]
              /\ UNCHANGED extracted_recipes
  /\ RecipesBeside

\* extract_recipe is over: the rest of the request (l.835-927)
ExtractionEnds(x) ==
  /\ extract.pc = "extracting"
  /\ IF x.kind = "ValueError"
     THEN /\ extract' = [extract EXCEPT !.pc = "done",
                           !.response = Some([status |-> 400, cached |-> None,
                                              recipe_text |-> None, steps |-> <<>>])]
          /\ UNCHANGED extracted_recipes
     ELSE IF x.kind = "Exception" \/ CostRaises(x)
     THEN /\ extract' = [extract EXCEPT !.pc = "done",
                           !.fresh = IF x.kind = "result" THEN Some(x) ELSE None,
                           !.response = Some([status |-> 500, cached |-> None,
                                              recipe_text |-> None, steps |-> <<>>])]
          /\ UNCHANGED extracted_recipes
     ELSE LET steps == ParsedSteps(x.recipe_text)
              row == [recipe_id |-> extracted_recipes.seq, video |-> extract.video,
                      extracted_text |-> x.recipe_text[1]]
          IN  /\ extract' = [extract EXCEPT !.pc = "done",
                               !.fresh = Some(x),
                               !.inserted = IF steps # <<>> THEN Some(row) ELSE None,
                               !.response = Some([status |-> 200, cached |-> Some(FALSE),
                                                  recipe_text |-> x.recipe_text,
                                                  steps |-> steps])]
              /\ extracted_recipes' =
                   IF steps # <<>>
                   THEN [rows |-> extracted_recipes.rows \cup {row},
                         seq |-> extracted_recipes.seq + 1]
                   ELSE extracted_recipes
  /\ RecipesBeside

\* the table before the requests: empty, or holding a row written by an
\* earlier version of the service, with or without steps
LegacyTexts == {<< Header("steps"), Numbered("cut") >>, << Header("ingredients") >>}
InitialRecipes ==
  {NoRecipes} \cup
  {[rows |-> {[recipe_id |-> 1, video |-> v, extracted_text |-> t]}, seq |-> 2] :
     v \in RecipeVideos, t \in LegacyTexts \cap RecipeTexts}

InitExtract ==
  /\ InitClient
  /\ api_key /\ gemini_key /\ log_db_url
  /\ tables = FreshCatalog /\ batch = IdleBatch /\ observed = None
  /\ InitServicesBut("recipes")
  /\ extracted_recipes \in InitialRecipes
  /\ extract = NoRequest

NextExtract ==
  \/ \E video \in RecipeVideos, hit \in {None} \cup {Some(row) : row \in extracted_recipes.rows} :
       ExtractRecipe(video, hit)
  \/ \E x \in Extractions : ExtractionEnds(x)

SpecExtract == InitExtract /\ [][NextExtract]_vars

(* ----------------- layout rules cache (layout_analyzer) ---------------- *)
\* DATABASE_URL is set and the database answers.  The clock is the one of
\* the tracker; one instant stands for fifteen days, so that the thirty
\* days of self.cache_expiry_days are two instants.
cache_expiry_days == 2

\* urls of recipe pages: the netloc with or without a leading "www."
LayoutUrls ==
  { [www |-> TRUE, host |-> "cookpad.com", path |-> "/recipe/1"],
    [www |-> FALSE, host |-> "cookpad.com", path |-> "/recipe/2"],
    [www |-> FALSE, host |-> "delishkitchen.tv", path |-> "/recipes/3"] }
\* _extract_domain(url): the netloc without a leading "www."
ExtractDomain(url) == url.host

\* the default rules of _analyze_with_gemini
DefaultRules == [hide_selectors |-> <<>>, main_content_selector |-> "body"]
\* what _analyze_with_gemini does: it returns the rules of the model's JSON
\* (missing keys filled in), the default rules when there is no JSON, or
\* raises ValueError
Analyses ==
  { [kind |-> "rules",
     rules |-> [hide_selectors |-> << ".ad" >>, main_content_selector |-> ".recipe"]],
    [kind |-> "rules", rules |-> DefaultRules],
    [kind |-> "raise"] }

\* WHERE site_domain = %s AND updated_at >= %s
CachedRows_Inclusive(rows, site_domain, t) ==
  {row \in rows : row.site_domain = site_domain /\ row.updated_at >= t - cache_expiry_days}
\* WHERE site_domain = %s AND updated_at > %s, with
\* expiry_date = datetime.now() - timedelta(days=self.cache_expiry_days)
CachedRows(rows, site_domain, t) ==
  {row \in rows : row.site_domain = site_domain /\ row.updated_at > t - cache_expiry_days}

\* INSERT ... ON CONFLICT (site_domain) DO UPDATE SET hide_selectors,
\* main_content_selector, updated_at = NOW()
Upsert(rows, site_domain, rules, t) ==
  IF \E row \in rows : row.site_domain = site_domain
  THEN {IF row.site_domain = site_domain
        THEN [row EXCEPT !.rules = rules, !.updated_at = t]
        ELSE row : row \in rows}
  ELSE rows \cup {[site_domain |-> site_domain, rules |-> rules,
                   created_at |-> t, updated_at |-> t]}

LayoutBeside == UNCHANGED << client, workers, ranking, beside_layout >>

\* analyze_layout(url, user_id) up to the end of the cache check
AnalyzeLayout(url, hit) ==
  /\ analysis.pc \in {"idle", "returned", "raised"}
  /\ LET site_domain == ExtractDomain(url)
         cached == CachedRows(layout_rules, site_domain, now)
         call == [pc |-> "fetching", url |-> url, site_domain |-> site_domain,
                  at |-> now, seen |-> layout_rules, fetched |-> FALSE,
                  analyzed |-> FALSE, saved_at |-> None, ret |-> None]
     IN  /\ IF cached = {} THEN hit = None ELSE hit \in {Some(row) : row \in cached}
         /\ analysis' =
              IF hit = None THEN call
              ELSE [call EXCEPT !.pc = "returned",
                                !.ret = Some([site_domain |-> hit[1].site_domain,
                                              rules |-> hit[1].rules,
                                              updated_at |-> Some(hit[1].updated_at),
                                              cached |-> TRUE])]
  /\ UNCHANGED layout_rules
  /\ LayoutBeside

\* _fetch_html(url) returns the page or raises ValueError
HtmlFetched(ok) ==
  /\ analysis.pc = "fetching"
  /\ analysis' = [analysis EXCEPT !.fetched = TRUE,
                                  !.pc = IF ok THEN "analyzing" ELSE "raised"]
  /\ UNCHANGED layout_rules
  /\ LayoutBeside

\* _analyze_with_gemini, _save_rules_to_db and the return
LayoutAnalyzed(a) ==
  /\ analysis.pc = "analyzing"
  /\ IF ~gemini_key
     THEN /\ analysis' = [analysis EXCEPT !.pc = "raised"]
          /\ UNCHANGED layout_rules
     ELSE IF a.kind = "raise"
     THEN /\ analysis' = [analysis EXCEPT !.pc = "raised", !.analyzed = TRUE]
          /\ UNCHANGED layout_rules
     ELSE /\ layout_rules' = Upsert(layout_rules, analysis.site_domain, a.rules, now)
          /\ analysis' = [analysis EXCEPT
                            !.pc = "returned", !.analyzed = TRUE,
                            !.saved_at = Some(now),
                            !.ret = Some([site_domain |-> analysis.site_domain,
                                          rules |-> a.rules, updated_at |-> None,
                                          cached |-> FALSE])]
  /\ LayoutBeside

InitLayout ==
  /\ InitClient
  /\ api_key /\ log_db_url
  /\ tables = FreshCatalog /\ batch = IdleBatch /\ observed = None
  /\ InitServicesBut("layout")
  /\ layout_rules = {}
  /\ analysis = NoAnalysis

NextLayout ==
  \/ \E url \in LayoutUrls, hit \in {None} \cup {Some(row) : row \in layout_rules} :
       AnalyzeLayout(url, hit)
  \/ \E ok \in BOOLEAN : HtmlFetched(ok)
  \/ \E a \in Analyses : LayoutAnalyzed(a)
  \/ Tick

SpecLayout == InitLayout /\ [][NextLayout]_vars

(* ------------- the daily ranking batch (batch_processor) --------------- *)
\* run_daily_ranking_batch: the rankings are calculated from the videos
\* table, the batch is skipped when no period has an entry, otherwise the
\* metadata is fetched and update_rankings_table_atomic runs.

VideoIds == << "v1", "v2" >>
Platforms == {"youtube", "tiktok"}
\* days since created_at: today, this week, longer ago
Ages == {0, 3, 10}
VideoRows == [unique_video_id : Range(VideoIds), platform : Platforms, age : Ages]
VideoTables == SeqsUpTo(VideoRows, MaxVideos)

\* _get_period_days, for the periods of the model
PeriodDays(period) == IF period = "daily" THEN 1 ELSE 7

\* ORDER BY ..., unique_video_id: the order of the ids
IdRank(id) == CHOOSE i \in 1..Len(VideoIds) : VideoIds[i] = id

\* WHERE created_at >= now - days
InPeriod(rows, period) == SelectSeq(rows, LAMBDA r : r.age <= PeriodDays(period))
\* GROUP BY unique_video_id, platform
GroupsOf(rows) == {<< r.unique_video_id, r.platform >> : r \in Range(rows)}
\* COUNT(*) of a group
CountOf(rows, g) ==
  Cardinality({i \in 1..Len(rows) :
                 /\ rows[i].unique_video_id = g[1]
                 /\ rows[i].platform = g[2]})
\* ORDER BY video_count DESC, unique_video_id
ComesBefore(rows, g, h) ==
  \/ CountOf(rows, g) > CountOf(rows, h)
  \/ CountOf(rows, g) = CountOf(rows, h) /\ IdRank(g[1]) < IdRank(h[1])
RECURSIVE Ordered(_, _)
Ordered(rows, groups) ==
  IF groups = {} THEN <<>>
  ELSE LET g == CHOOSE x \in groups : \A h \in groups : ~ComesBefore(rows, h, x)
       IN  << g >> \o Ordered(rows, groups \ {g})
\* calculate_rankings_by_period(period_type, limit): the first limit groups
\* as (unique_video_id, count)
CalculateRankingsByPeriod(rows, period, limit) ==
  LET inp == InPeriod(rows, period)
      ordered == Ordered(inp, GroupsOf(inp))
  IN  [k \in 1..Min2(limit, Len(ordered)) |->
         << ordered[k][1], CountOf(inp, ordered[k]) >>]
\* get_top_video_ids_by_periods(limit): a period whose calculation failed
\* has the empty list
GetTopVideoIdsByPeriods(rows, failed, limit) ==
  [p \in 1..Len(Periods) |->
     IF p \in failed THEN <<>> ELSE CalculateRankingsByPeriod(rows, Periods[p], limit)]

\* skipping only when every period failed to calculate
NoRankingData_Never(data) == FALSE
\* `not any(ranking_data.values())`
NoRankingData(data) == \A p \in DOMAIN data : data[p] = <<>>

DailyBeside == UNCHANGED << client, workers, beside_daily >>

\* run_daily_ranking_batch up to the end of step 1
RunDailyRankingBatch(failed) ==
  /\ daily.pc = "idle"
  /\ LET data == GetTopVideoIdsByPeriods(videos, failed, MaxRank)
     IN  daily' = [pc |-> IF NoRankingData(data) THEN "done" ELSE "fetching",
                   ranking_data |-> data, fetched |-> FALSE, metadata |-> None,
                   before |-> tables,
                   ret |-> IF NoRankingData(data) THEN Some(FALSE) ELSE None]
  /\ UNCHANGED << videos, ranking >>
  /\ DailyBeside

\* step 2: get_complete_metadata_for_rankings(ranking_data)
MetadataFetched(metadata) ==
  /\ daily.pc = "fetching"
  /\ daily' = [daily EXCEPT !.pc = "updating", !.fetched = TRUE,
                            !.metadata = Some(metadata)]
  /\ UNCHANGED << videos, ranking >>
  /\ DailyBeside

\* step 3: update_rankings_table_atomic(ranking_data, complete_metadata)
DailyUpdate ==
  /\ daily.pc = "updating"
  /\ UpdateBegin(daily.ranking_data, daily.metadata[1])

\* the table update returned success: return True or False
DailyReturns ==
  /\ daily.pc = "updating"
  /\ batch.pc = "done"
  /\ daily' = [daily EXCEPT !.pc = "done", !.ret = batch.ret]
  /\ UNCHANGED << videos, ranking >>
  /\ DailyBeside

InitDaily ==
  /\ InitClient
  /\ api_key /\ gemini_key /\ log_db_url
  /\ tables \in InitialCatalogs
  /\ batch = IdleBatch
  /\ observed = None
  /\ InitServicesBut("daily")
  /\ videos \in VideoTables
  /\ daily = NoRun

NextDaily ==
  \/ \E failed \in SUBSET (1..Len(Periods)) : RunDailyRankingBatch(failed)
  \/ \E metadata \in MetadataChoices : MetadataFetched(metadata)
  \/ DailyUpdate
  \/ DropTemp
  \/ CreateTemp
  \/ InsertRow
  \/ DropOld
  \/ RenameOld
  \/ RenameTemp
  \/ Commit
  \/ UpdateFails
  \/ DailyReturns

SpecDaily == InitDaily /\ [][NextDaily]_vars

(* ------------- folder suggestions in batches (folder_categorizer) ------ *)
\* suggest_folders_batch: the videos are cut into batches, each batch is one
\* dispatch on a pool thread, and the results are collected in the order in
\* which the batches complete.

\* batch_size (20 in the source, scaled to the videos of the model)
batch_size == 2
\* v.get("id") of a video: an id or None
SuggestedIds == {Some("a"), Some("b"), None}
SuggestedVideos == SeqsUpTo(SuggestedIds, MaxSuggested)
\* current_folders: none, without and with the folder named 未分類
Uncategorized == "uncategorized"
FolderLists ==
  { <<>>,
    << [id |-> "f1", name |-> "washoku"] >>,
    << [id |-> "f1", name |-> "washoku"], [id |-> "f0", name |-> Uncategorized] >> }
\* the id of the first folder named 未分類, or None
UncategorizedId(current_folders) ==
  LET named == SelectSeq(current_folders, LAMBDA f : f.name = Uncategorized)
  IN  IF named = <<>> THEN None ELSE Some(named[1].id)

\* what a batch worker meets: the dispatcher raised or answered without
\* content, reported failure, answered text that is not JSON, JSON that is
\* not a list, a list with an element that is no object, or a list of
\* objects (result_map: video_id -> suggested_folder_id)
ResultMaps ==
  UNION {[answered -> {None, Some("f1")}] : answered \in SUBSET {Some("a"), None, Some("zz")}}
BatchOutcomes ==
  [kind : {"raises", "failure", "not_json", "not_list", "bad_element"}]
    \cup [kind : {"list"}, result_map : ResultMaps]

Entry(vid, s_id, reason) ==
  [video_id |-> vid, suggested_folder_id |-> s_id, reason |-> reason]
\* one entry per video of the batch, without a suggestion
Unsuggested(batch_videos, reason) ==
  [i \in 1..Len(batch_videos) |-> Entry(batch_videos[i], None, reason)]
\* the loop over batch_videos, for a parsed list
FromResultMap(batch_videos, result_map, uncategorized_id) ==
  [i \in 1..Len(batch_videos) |->
     LET vid == batch_videos[i] IN
       IF vid \in DOMAIN result_map
       THEN IF result_map[vid] = None /\ Truthy(uncategorized_id)
            THEN Entry(vid, uncategorized_id, "uncategorized chosen")
            ELSE Entry(vid, result_map[vid], "by the model")
       ELSE IF Truthy(uncategorized_id)
            THEN Entry(vid, uncategorized_id, "skipped, uncategorized chosen")
            ELSE Entry(vid, None, "skipped")]
\* an exception handler that adds nothing
OnException_Drop(batch_videos, appended) == appended
\* `except Exception`: one entry per video of the batch after what the
\* worker had appended when the exception was raised
OnException(batch_videos, appended) ==
  appended \o Unsuggested(batch_videos, "system error")
\* process_batch(batch_videos)
ProcessBatch(batch_videos, outcome, uncategorized_id) ==
  CASE outcome.kind = "failure" -> Unsuggested(batch_videos, "AI error")
    [] outcome.kind = "not_list" -> Unsuggested(batch_videos, "invalid format")
    [] outcome.kind = "list" ->
         FromResultMap(batch_videos, outcome.result_map, uncategorized_id)
    [] OTHER -> OnException(batch_videos, <<>>)

\* videos[i:i + batch_size] for i in range(0, len(videos), batch_size)
BatchesOf(vs) ==
  [k \in 1..((Len(vs) + batch_size - 1) \div batch_size) |->
     SubSeq(vs, (k - 1) * batch_size + 1, Min2(k * batch_size, Len(vs)))]

SuggestBeside == UNCHANGED << client, workers, ranking, beside_folders >>

\* suggest_folders_batch up to the submission of the batches
SuggestFoldersBatch(vs, current_folders) ==
  /\ suggest.pc = "idle"
  /\ suggest' =
       IF vs = <<>>
       THEN [pc |-> "done", videos |-> vs, folders |-> current_folders,
             futures |-> <<>>, all_results |-> <<>>, success |-> FALSE]
       ELSE IF current_folders = <<>>
       THEN [pc |-> "done", videos |-> vs, folders |-> current_folders,
             futures |-> <<>>, all_results |-> Unsuggested(vs, "no folders"),
             success |-> TRUE]
       ELSE [pc |-> "collecting", videos |-> vs, folders |-> current_folders,
             futures |-> [k \in DOMAIN BatchesOf(vs) |->
                            [batch_videos |-> BatchesOf(vs)[k], done |-> FALSE]],
             all_results |-> <<>>, success |-> FALSE]
  /\ SuggestBeside

\* a batch completes and as_completed hands its result to the caller
BatchCompleted(k, outcome) ==
  /\ suggest.pc = "collecting"
  /\ k \in DOMAIN suggest.futures
  /\ ~suggest.futures[k].done
  /\ suggest' = [suggest EXCEPT
                   !.futures[k].done = TRUE,
                   !.all_results = @ \o ProcessBatch(suggest.futures[k].batch_videos,
                                                    outcome,
                                                    UncategorizedId(suggest.folders))]
  /\ SuggestBeside

\* every future has completed: return success with all_results
SuggestReturns ==
  /\ suggest.pc = "collecting"
  /\ \A k \in DOMAIN suggest.futures : suggest.futures[k].done
  /\ suggest' = [suggest EXCEPT !.pc = "done", !.success = TRUE]
  /\ SuggestBeside

InitSuggest ==
  /\ InitClient
  /\ api_key /\ gemini_key /\ log_db_url
  /\ tables = FreshCatalog /\ batch = IdleBatch /\ observed = None
  /\ InitServicesBut("folders")
  /\ suggest = NoSuggestion

NextSuggest ==
  \/ \E vs \in SuggestedVideos, fs \in FolderLists : SuggestFoldersBatch(vs, fs)
  \/ \E k \in 1..MaxSuggested, o \in BatchOutcomes : BatchCompleted(k, o)
  \/ SuggestReturns

SpecSuggest == InitSuggest /\ [][NextSuggest]_vars

(* ------------- ingredients of the shopping list (shopping_manager) ----- *)
\* check_and_resolve_ingredients: per ingredient, categorize_ingredient and,
\* with a category, generate_master_name, both through chat_completion.

\* Python values that a category_id can be
PyNone == [t |-> "None"]
PyInt(n) == [t |-> "int", number |-> n]
PyStr(str) == [t |-> "str", text |-> str]
PyTuple(a, b) == [t |-> "tuple", items |-> << a, b >>]

IngredientNames == {"ninjin", "tamago"}
IngredientLists == SeqsUpTo(IngredientNames, MaxIngredients)
\* get_all_categories: the rows of table categories, [] on a database error
CategoryTables ==
  { <<>>, << [id |-> 1, name |-> "yasai"], [id |-> 2, name |-> "niku"] >> }

\* what chat_completion does for categorize_ingredient: it raises without
\* OPENROUTER_API_KEY, reports failure, or answers with content that is not
\* JSON or is an object whose category_id is as given
CategoryValues == {PyNone, PyInt(1), PyInt(9), PyStr("2"), PyStr("niku")}
CategoryReplies ==
  [kind : {"raises", "failure", "unparseable"}]
    \cup [kind : {"object"}, category_id : CategoryValues]
\* the replies there can be with the configuration of the client
RepliesNow(replies) ==
  {r \in replies : (r.kind = "raises") <=> ~api_key}

\* int(val): the number of a numeric value, ValueError for other text
IsNumeric(val) == val.t = "int" \/ val = PyStr("2")
IntOf(val) == IF val.t = "int" THEN val ELSE PyInt(2)

\* `except Exception as e: return None, str(e)`
OnCategorizeError(msg) == PyTuple(PyNone, PyStr(msg))
\* categorize_ingredient(ingredient_name, categories)
CategorizeIngredient(reply) ==
  CASE reply.kind = "raises" -> OnCategorizeError("OPENROUTER_API_KEY not set")
    [] reply.kind = "failure" -> PyNone
    [] reply.kind = "unparseable" -> PyNone
    [] OTHER ->
         IF reply.category_id = PyNone THEN PyNone
         ELSE IF IsNumeric(reply.category_id) THEN IntOf(reply.category_id)
         ELSE reply.category_id

\* what chat_completion does for generate_master_name
MasterReplies ==
  [kind : {"raises", "failure", "unparseable"}]
    \cup [kind : {"object"}, master_name : {"ninjin"}, is_new_master : BOOLEAN]
\* generate_master_name(ingredient_name, category_id, existing_masters)
GenerateMasterName(ingredient_name, reply) ==
  IF reply.kind = "object"
  THEN << reply.master_name, reply.is_new_master >>
  ELSE << ingredient_name, TRUE >>

\* next((c['name'] for c in categories if c['id'] == category_id), "不明")
Unknown == "unknown"
CategoryName(categories, category_id) ==
  LET named == SelectSeq(categories, LAMBDA c : PyInt(c.id) = category_id)
  IN  IF named = <<>> THEN Unknown ELSE named[1].name

ShoppingBeside == UNCHANGED << client, workers, ranking, beside_shopping >>

\* check_and_resolve_ingredients up to the loop
CheckAndResolveIngredients(ingredient_names, categories) ==
  /\ shopping.pc = "idle"
  /\ shopping' = [pc |-> IF categories = <<>> THEN "done" ELSE "categorize",
                  ingredient_names |-> ingredient_names, categories |-> categories,
                  i |-> 1, category_id |-> PyNone, met |-> <<>>, results |-> <<>>,
                  master_calls |-> {}]
  /\ ShoppingBeside

\* category_id = openrouter_client.categorize_ingredient(name, categories)
Categorized(reply) ==
  /\ shopping.pc = "categorize"
  /\ shopping.i <= Len(shopping.ingredient_names)
  /\ shopping' = [shopping EXCEPT !.pc = "resolve",
                                  !.category_id = CategorizeIngredient(reply),
                                  !.met = Append(@, reply.kind)]
  /\ ShoppingBeside

\* `if category_id is None`: the entry of a failed categorization
CategorizationFailed ==
  /\ shopping.pc = "resolve"
  /\ shopping.category_id = PyNone
  /\ LET name == shopping.ingredient_names[shopping.i] IN
       shopping' = [shopping EXCEPT
         !.pc = "categorize", !.i = @ + 1,
         !.results = Append(@, [ingredient_name |-> name, category_id |-> PyNone,
                                category_name |-> Unknown, master_name |-> name,
                                is_new |-> TRUE,
                                error |-> Some("Categorization failed")])]
  /\ ShoppingBeside

\* the master name of a categorized ingredient
MasterResolved(reply) ==
  /\ shopping.pc = "resolve"
  /\ shopping.category_id # PyNone
  /\ LET name == shopping.ingredient_names[shopping.i]
         master == GenerateMasterName(name, reply)
     IN  shopping' = [shopping EXCEPT
           !.pc = "categorize", !.i = @ + 1,
           !.master_calls = @ \cup {shopping.i},
           !.results = Append(@, [ingredient_name |-> name,
                                  category_id |-> shopping.category_id,
                                  category_name |-> CategoryName(shopping.categories,
                                                                 shopping.category_id),
                                  master_name |-> master[1], is_new |-> master[2],
                                  error |-> None])]
  /\ ShoppingBeside

\* `return results` after the loop
ShoppingReturns ==
  /\ shopping.pc = "categorize"
  /\ shopping.i > Len(shopping.ingredient_names)
  /\ shopping' = [shopping EXCEPT !.pc = "done"]
  /\ ShoppingBeside

InitShopping ==
  /\ InitClient
  /\ tables = FreshCatalog /\ batch = IdleBatch /\ observed = None
  /\ InitServicesBut("shopping")
  /\ shopping = NoShopping

NextShopping ==
  \/ \E names \in IngredientLists, categories \in CategoryTables :
       CheckAndResolveIngredients(names, categories)
  \/ \E reply \in RepliesNow(CategoryReplies) : Categorized(reply)
  \/ CategorizationFailed
  \/ \E reply \in RepliesNow(MasterReplies) : MasterResolved(reply)
  \/ ShoppingReturns

SpecShopping == InitShopping /\ [][NextShopping]_vars

(* ======================= properties of the dispatcher ================== *)
IsPrimary(a) == a.index >= 1
IsSecondary(a) == a.index = 0
LastAttempt == attempts[Len(attempts)]
\* the attempt ended in what the dispatch treats as a success
Succeeded(a) ==
  IF IsPrimary(a) THEN Answered(a.outcome)
  ELSE a.outcome.kind = "text" /\ a.outcome.text # ""
PrimaryAttempts == SelectSeq(attempts, IsPrimary)
NoPrimaryAnswered == \A i \in 1..Len(attempts) : IsPrimary(attempts[i]) => ~Succeeded(attempts[i])

\* C1 as stated: whenever a model of the list returned HTTP 200, the call
\* has returned success attributed to that model and that call was the last
\* provider call of the dispatch.
C1_FirstHttp200Wins ==
  \A i \in 1..Len(attempts) :
    (IsPrimary(attempts[i]) /\ Returned200(attempts[i].outcome)) =>
      /\ i = Len(attempts)
      /\ pc = "returned"
      /\ result.success
      /\ result.model_used = Some(models[attempts[i].index])

\* C1 amended: whenever a model of the list returned HTTP 200 with a body
\* the dispatch could read, the call has returned success attributed to
\* that model, that model is the first of the list to have done so, and no
\* provider was called after it.
C1_FirstAnswerWins ==
  \A i \in 1..Len(attempts) :
    (IsPrimary(attempts[i]) /\ Answered(attempts[i].outcome)) =>
      /\ i = Len(attempts)
      /\ \A j \in 1..(i - 1) : ~Answered(attempts[j].outcome)
      /\ pc = "returned"
      /\ result.success
      /\ result.model_used = Some(models[attempts[i].index])

\* a two-model list whose first model failed and whose second answered
C1_Witness ==
  /\ pc = "returned"
  /\ Len(models) = 2
  /\ models[1] # models[2]
  /\ Len(attempts) = 2
  /\ ~Answered(attempts[1].outcome)
  /\ Answered(attempts[2].outcome)
  /\ result.model_used = Some(models[2])

\* C2: the primary calls of a dispatch go to positions 1, 2, 3, ... of the
\* list as it was given, one call per position, in this order; a secondary
\* call can only come after them.
C2_StrictListOrder ==
  \A i \in 1..Len(attempts) :
    \/ /\ IsPrimary(attempts[i])
       /\ attempts[i].index = i
       /\ i <= Len(models)
       /\ attempts[i].provider = models[i]
    \/ /\ IsSecondary(attempts[i])
       /\ i = Len(models) + 1
       /\ i = Len(attempts)

\* model 1 was rate limited and the next call went to model 2
C2_Witness ==
  /\ Len(attempts) >= 2
  /\ attempts[1].outcome.kind = "response"
  /\ attempts[1].outcome.response.status_code = "429"
  /\ attempts[2].index = 2
  /\ attempts[2].outcome.kind = "timeout"

\* C3: when the call has returned, Gemini is configured and no primary model
\* answered, the direct Gemini call was made after the whole list; if it
\* returned text, the result is a success attributed to the secondary's
\* identifier with that text as content.
C3_SecondaryAnswers ==
  (pc = "returned" /\ gemini_key /\ NoPrimaryAnswered) =>
    /\ Len(attempts) = Len(models) + 1
    /\ IsSecondary(LastAttempt)
    /\ Succeeded(LastAttempt) =>
         /\ result.success
         /\ result.model_used = Some(GEMINI_DIRECT)
         /\ result.content = Some(LastAttempt.outcome.text)

\* registry = [A (timeout)], secondary answers "Y"
C3_Witness ==
  /\ pc = "returned"
  /\ Len(models) = 1
  /\ Len(attempts) = 2
  /\ attempts[1].outcome.kind = "timeout"
  /\ Succeeded(attempts[2])
  /\ result.model_used = Some(GEMINI_DIRECT)
  /\ result.content = Some("Y")

\* the error message one failed attempt produced (None: no message)
MessageOf(a) ==
  IF IsPrimary(a) THEN PrimaryLastError(a.provider, a.outcome)
  ELSE IF a.outcome.kind = "raise" THEN Some(a.outcome.exc) ELSE None
\* `message or "All models failed"`
Surfaced(msg) == IF Truthy(msg) THEN msg[1] ELSE "All models failed"

\* C4 as stated: a failed call carries the error message of the last
\* attempted provider and nothing else.
C4_LastErrorOnly ==
  (pc = "returned" /\ ~result.success /\ attempts # <<>>) =>
    result.error = Surfaced(MessageOf(LastAttempt))

\* C4 amended: a failed call carries the message of the last primary attempt
\* when no Gemini call raised, and that message (the text None when the list
\* was empty) joined with " | Gemini fallback error: " and the exception
\* text when the Gemini call raised; messages of earlier primary attempts
\* are not part of it.
C4_LastPrimaryPlusGemini ==
  (pc = "returned" /\ ~result.success) =>
    LET prim == PrimaryAttempts
        last_primary == IF prim = <<>> THEN None ELSE MessageOf(prim[Len(prim)])
    IN  IF attempts # <<>> /\ IsSecondary(LastAttempt) /\ LastAttempt.outcome.kind = "raise"
        THEN result.error = FStr(last_primary) \o " | Gemini fallback error: "
                                               \o LastAttempt.outcome.exc
        ELSE result.error = Surfaced(last_primary)

\* two primary failures with different messages, then the Gemini call raised
C4_Witness ==
  /\ pc = "returned"
  /\ ~result.success
  /\ Len(attempts) = 3
  /\ MessageOf(attempts[1]) # MessageOf(attempts[2])
  /\ MessageOf(attempts[2]) = Some("bad request")
  /\ LastAttempt.outcome.kind = "raise"
  /\ result.error = "bad request | Gemini fallback error: quota exceeded"

\* the records written by the current chat_completion call
RecordsOfCall == SubSeq(written, written_before + 1, Len(written))
OutcomeTag(a) == IF Succeeded(a) THEN "success" ELSE "error"

\* C5 as stated: when the call has returned, its attempts and the records it
\* wrote correspond one to one (same provider, same outcome), and the
\* tracker reports for the provider attempted last the outcome of that
\* attempt.
C5_EveryAttemptRecorded ==
  pc = "returned" =>
    /\ Len(RecordsOfCall) = Len(attempts)
    /\ \A i \in 1..Len(attempts) :
         /\ RecordsOfCall[i].model = attempts[i].provider
         /\ RecordsOfCall[i].status = OutcomeTag(attempts[i])
    /\ attempts # <<>> =>
         GetModelStatus[LastAttempt.provider].status = OutcomeTag(LastAttempt)

CountBefore(counts, m) == IF m \in DOMAIN counts THEN counts[m] ELSE 0

\* C6 as stated: after two calls in a row with the same list, each answered
\* by the first model, both results name the first model and the reported
\* success_count has grown by 2 for it and by 0 for every other model.
C6_TwoCallsCountTwo ==
  (/\ pc = "returned"
   /\ FirstWon(attempts)
   /\ prev # None
   /\ prev[1].models = models) =>
    /\ result.model_used = Some(models[1])
    /\ prev[1].model_used = Some(models[1])
    /\ \A m \in DOMAIN GetModelStatus :
         GetModelStatus[m].success_count - CountBefore(prev[1].before, m)
           = IF m = models[1] THEN 2 ELSE 0

\* C10 as stated: a returned result has content iff it is a success and an
\* error description iff it is a failure.
C10_ContentIffSuccess ==
  pc = "returned" =>
    /\ (result.content # None) <=> result.success
    /\ ("error" \in DOMAIN result /\ result.error # "") <=> ~result.success

(* ========================= properties of the tracker =================== *)
\* the records of provider p that cleanup_old_logs has not deleted
Retained(p) ==
  SelectSeq(written, LAMBDA w : w.model = p /\ ~\E r \in pruned : r.timestamp = w.at)
WrittenFor(p) == SelectSeq(written, LAMBDA w : w.model = p)
NumberOf(recs, st) == Len(SelectSeq(recs, LAMBDA w : w.status = st))

\* C7: every provider with a record is reported, and the reported status of
\* a provider is unused when it has no (remaining) record and the outcome of
\* its latest record otherwise.
C7_MostRecentWins ==
  /\ \A i \in 1..Len(written) : written[i].model \in DOMAIN GetModelStatus \/ Retained(written[i].model) = <<>>
  /\ \A p \in DOMAIN GetModelStatus :
       GetModelStatus[p].status =
         IF Retained(p) = <<>> THEN "unused"
         ELSE Retained(p)[Len(Retained(p))].status

\* database mode: a provider with a success record and a later error record
C7_Witness ==
  /\ log_db_url
  /\ \E p \in DOMAIN GetModelStatus :
       /\ Len(Retained(p)) = 2
       /\ Retained(p)[1].status = "success"
       /\ Retained(p)[2].status = "error"
       /\ GetModelStatus[p].status = "error"

\* C8 as stated: the reported counts are the numbers of success and error
\* records ever written for the provider.
C8_CountsAllHistory ==
  \A p \in DOMAIN GetModelStatus :
    /\ GetModelStatus[p].success_count = NumberOf(WrittenFor(p), "success")
    /\ GetModelStatus[p].error_count = NumberOf(WrittenFor(p), "error")

\* C8 amended: the reported counts are the numbers of success and error
\* records written for the provider and not deleted by cleanup_old_logs,
\* which deletes only records older than one year (and nothing when no log
\* database is configured).
C8_CountsRetained ==
  /\ \A p \in DOMAIN GetModelStatus :
       /\ GetModelStatus[p].success_count = NumberOf(Retained(p), "success")
       /\ GetModelStatus[p].error_count = NumberOf(Retained(p), "error")
  /\ \A r \in pruned : r.timestamp < now - Year
  /\ ~log_db_url => pruned = {}

\* a provider with two error records of which cleanup deleted the older one
C8_Witness ==
  /\ log_db_url
  /\ \E p \in DOMAIN GetModelStatus :
       /\ Len(WrittenFor(p)) = 2
       /\ Len(Retained(p)) = 1
       /\ GetModelStatus[p].error_count = 1

\* C9 as stated: with a log database and nothing deleted from it, the
\* in-memory status and the database status agree for every provider on
\* last-used presence, status, both counts and last_error.
C9_SameReadContract ==
  (log_db_url /\ pruned = {}) =>
    /\ DOMAIN model_stats = DOMAIN DbStats(ai_usage_logs)
    /\ \A p \in DOMAIN model_stats :
         LET mem == model_stats[p]
             db == DbStats(ai_usage_logs)[p]
         IN  /\ (mem.last_used = None) <=> (db.last_used = None)
             /\ mem.status = db.status
             /\ mem.success_count = db.success_count
             /\ mem.error_count = db.error_count
             /\ mem.last_error = db.last_error

(* ==================== error handling of the dispatcher ================= *)
\* C11: a chat_completion call that has made a provider call is running or
\* has returned a result value with a success tag, whatever the providers
\* answered; it has raised only when the API key is not set, and then with
\* the configuration error and without any provider call.
C11_NothingPropagates ==
  /\ attempts # <<>> => pc \in {"loop", "returned"}
  /\ pc = "returned" => result.success \in BOOLEAN
  /\ pc = "raised" =>
       /\ ~api_key
       /\ attempts = <<>>
       /\ result = [raised |-> "OPENROUTER_API_KEY not set"]

\* a network exception, then a 200 with a body that cannot be read, then
\* the direct Gemini call raising: the call returned a failure
C11_Witness ==
  /\ pc = "returned"
  /\ ~result.success
  /\ Len(attempts) = 3
  /\ attempts[1].outcome.kind = "exception"
  /\ Returned200(attempts[2].outcome)
  /\ Read200(attempts[2].outcome.response).raised
  /\ attempts[3].outcome.kind = "raise"

\* a call that ended: chat_completion or analyze_video_url returned
Returned == pc \in {"returned", "video_returned"}
HasRaised == pc \in {"raised", "video_raised"}

\* C12: while the API key is not set, a call of chat_completion or of
\* analyze_video_url can only end by raising the configuration error: no
\* provider call was made, no usage record was written in memory or in the
\* database, and the direct Gemini fallback was neither configured nor used.
C12_MissingKeyIsFatal ==
  ~api_key =>
    /\ pc \in {"idle", "raised", "video_raised"}
    /\ attempts = <<>>
    /\ written = <<>>
    /\ ai_usage_logs = {}
    /\ model_stats = InitialModelStats
    /\ ~gemini_initialized
    /\ HasRaised => result = [raised |-> "OPENROUTER_API_KEY not set"]

\* chat_completion raised although the fallback and the log are configured
C12_Witness ==
  /\ ~api_key
  /\ gemini_key
  /\ log_db_url
  /\ pc = "raised"

\* C14: every failure returned by chat_completion or analyze_video_url has
\* success False, content None, model_used None and a non-empty error text.
C14_UniformFailure ==
  (Returned /\ ~result.success) =>
    /\ {"success", "content", "model_used", "error"} \subseteq DOMAIN result
    /\ result.content = None
    /\ result.model_used = None
    /\ result.error # ""

\* the empty list without a secondary provider
C14_Witness ==
  /\ pc = "returned"
  /\ models = <<>>
  /\ ~gemini_key
  /\ ~result.success
  /\ result.error = "All models failed"

\* C13: a call to the secondary provider is the last provider call of its
\* dispatch and the only one to the secondary; it comes after one failed
\* call to each model of the list, in list order, and the dispatch has
\* returned with it.
C13_SecondaryOnceAtTheEnd ==
  \A i \in 1..Len(attempts) :
    IsSecondary(attempts[i]) =>
      /\ i = Len(attempts)
      /\ i = Len(models) + 1
      /\ \A j \in 1..(i - 1) :
           /\ IsPrimary(attempts[j])
           /\ attempts[j].provider = models[j]
           /\ ~Succeeded(attempts[j])
      /\ pc = "returned"

\* two models failed, then the secondary was called and gave no text
C13_Witness ==
  /\ Len(models) = 2
  /\ Len(attempts) = 3
  /\ IsSecondary(attempts[3])
  /\ attempts[3].outcome = [kind |-> "text", text |-> ""]
  /\ pc = "returned"
  /\ ~result.success

Pending(a) == a.outcome = InFlight
CallsInFlight == {i \in 1..Len(attempts) : Pending(attempts[i])}

\* C16: at every moment of a chat_completion call at most one provider call
\* is in flight, and it is the latest one: every call made before it has
\* been answered (a response, a timeout or an exception).
C16_OneCallInFlight ==
  /\ Cardinality(CallsInFlight) <= 1
  /\ \A i \in CallsInFlight : i = Len(attempts)

\* the first model timed out and the call to the second one is in flight
C16_Witness ==
  /\ Len(attempts) = 2
  /\ attempts[1].outcome.kind = "timeout"
  /\ attempts[2].index = 2
  /\ Pending(attempts[2])

(* ====================== concurrent recording =========================== *)
Quiescent == Busy = {}

\* C17 as stated: once the pool workers have finished recording, the
\* reported success_count plus error_count of every provider is the number
\* of outcomes recorded for it, and its status is the outcome of one of
\* these records.
C17_NoLostUpdate ==
  Quiescent =>
    \A p \in DOMAIN GetModelStatus :
      /\ GetModelStatus[p].success_count + GetModelStatus[p].error_count
           = Len(WrittenFor(p))
      /\ WrittenFor(p) # <<>> =>
           \E i \in 1..Len(WrittenFor(p)) :
             GetModelStatus[p].status = WrittenFor(p)[i].status

(* ======================== the usage records ============================ *)
Deleted == ai_usage_logs \ ai_usage_logs'
Inserted == ai_usage_logs' \ ai_usage_logs

\* C18: in every step, rows leave ai_usage_logs only if they are older than
\* the one-year horizon and only in a step that is no part of a dispatch
\* (the call's position, attempts and result stay as they are: it is
\* cleanup_old_logs); a step of a dispatch inserts at most one row under a
\* new id and leaves every row that exists as it is.
C18_AppendOnly ==
  [][ /\ \A r \in Deleted : r.timestamp < now - Year
      /\ Deleted # {} =>
           /\ << pc, attempts, result >>' = << pc, attempts, result >>
           /\ Inserted = {}
           /\ Deleted \subseteq pruned' \ pruned
      /\ << pc, attempts, result >>' # << pc, attempts, result >> =>
           /\ ai_usage_logs \subseteq ai_usage_logs'
           /\ Cardinality(Inserted) <= 1
           /\ \A r \in Inserted : \A q \in ai_usage_logs : q.id # r.id
    ]_vars

\* cleanup has deleted the oldest record and two younger ones are kept
C18_Witness ==
  /\ pruned # {}
  /\ Cardinality(ai_usage_logs) = 2
  /\ \A r \in ai_usage_logs : ~(r.timestamp < now - Year)

(* ============================ token usage ============================== *)
TokenKeys == {"tokens_used", "prompt_tokens", "completion_tokens"}
\* the usage object of the body that the last attempt returned
ReportedBy(a) == Get(a.outcome.response.json[1], "usage", <<>>)

\* C19 as stated: every successful result, of a primary model or of the
\* secondary provider, carries total, input and output token counts, all
\* of them non-negative integers.
C19_AllThreeCounts ==
  (pc = "returned" /\ result.success) =>
    /\ TokenKeys \subseteq DOMAIN result
    /\ \A k \in TokenKeys : result[k] \in Nat

\* C19 amended: every successful result carries tokens_used as a
\* non-negative integer.  A result of a primary model carries prompt_tokens
\* and completion_tokens as well, and each of the three is the number the
\* provider reported under total_tokens, prompt_tokens, completion_tokens,
\* or zero when the provider did not report it.  A result of the secondary
\* provider carries tokens_used = 0 and no input or output count.
C19_TokenUsage ==
  (pc = "returned" /\ result.success) =>
    /\ result.tokens_used \in Nat
    /\ IF IsSecondary(LastAttempt)
       THEN /\ result.tokens_used = 0
            /\ DOMAIN result \cap TokenKeys = {"tokens_used"}
       ELSE LET u == ReportedBy(LastAttempt) IN
            /\ TokenKeys \subseteq DOMAIN result
            /\ \A k \in TokenKeys : result[k] \in Nat
            /\ result.tokens_used = IF "total_tokens" \in DOMAIN u THEN u.total_tokens ELSE 0
            /\ result.prompt_tokens = IF "prompt_tokens" \in DOMAIN u THEN u.prompt_tokens ELSE 0
            /\ result.completion_tokens =
                 IF "completion_tokens" \in DOMAIN u THEN u.completion_tokens ELSE 0

\* a primary model answered 200 without a usage object: all counts are zero
C19_Witness ==
  /\ pc = "returned"
  /\ result.success
  /\ IsPrimary(LastAttempt)
  /\ "usage" \notin DOMAIN LastAttempt.outcome.response.json[1]
  /\ result.tokens_used = 0
  /\ result.prompt_tokens = 0
  /\ result.completion_tokens = 0

(* ======================= ranking table update ========================== *)
\* the rows the call builds from ranking_data and metadata
BuiltRows == [k \in 1..Len(batch.items) |-> Row(batch.items[k], batch.metadata)]

\* C20: while the update runs, other sessions have the rankings table as it
\* was before the call; when it returned True, rankings holds exactly the
\* rows built from ranking_data, in rank order per period, and the table
\* that was rankings before is rankings_old; when it returned False, the
\* tables are what they were before the call; and whatever a reader selected
\* since the call began is the whole table as it was before the call or the
\* whole new table, so a table that existed before is never seen missing
\* or in part.
C20_AllOrNothing ==
  /\ InProgress => tables = batch.before
  /\ (batch.pc = "done" /\ batch.ret = Some(TRUE)) =>
       /\ tables.rankings = Some(BuiltRows)
       /\ batch.before.rankings # None => tables.rankings_old = batch.before.rankings
  /\ (batch.pc = "done" /\ batch.ret = Some(FALSE)) => tables = batch.before
  /\ (batch.pc # "idle" /\ observed # None) =>
       /\ observed[1] \in {batch.before.rankings, Some(BuiltRows)}
       /\ batch.ret # Some(TRUE) => observed[1] = batch.before.rankings
       /\ batch.before.rankings # None => observed[1] # None

\* a table of three rows was published over an existing one and read
C20_Witness ==
  /\ batch.pc = "done"
  /\ batch.ret = Some(TRUE)
  /\ batch.before.rankings # None
  /\ Len(BuiltRows) = 3
  /\ tables.rankings_old = batch.before.rankings
  /\ observed = Some(Some(BuiltRows))

(* ========================= ranking batch runs ========================== *)
\* C21: at most one run_daily_ranking_batch is in progress at any time,
\* whether the scheduled job or a manual update started it
C21_OneBatchAtATime == Cardinality(RunsInProgress) <= 1

(* ===================== automatic recipe refinement ===================== *)
SecondaryTried == \E i \in 1..Len(attempts) : IsSecondary(attempts[i])
AfterFailedDispatch ==
  refine.pc \in {"fallback", "done"} /\ refine.dispatch = Some("failure")

\* C22 (as stated): when the dispatcher returns failure to the automatic
\* refinement, no further provider call is made for the request
C22_NoFurtherFallback ==
  (refine.pc = "done" /\ refine.dispatch = Some("failure")) => refine.extra = <<>>

\* C22: when the dispatcher returns failure to the automatic refinement,
\* the refinement makes one further provider call, to gemini-2.0-flash-lite,
\* if GEMINI_API_KEY is set and none if it is not; it never makes a second
C22_OneGeminiFallback ==
  /\ refine.pc # "idle" => Len(refine.extra) <= 1
  /\ (refine.pc = "done" /\ refine.dispatch = Some("failure")) =>
       IF gemini_key
       THEN /\ Len(refine.extra) = 1
            /\ refine.extra[1].model = FallbackModel
            /\ refine.ret[1].model_used = Some(FallbackModel)
       ELSE refine.extra = <<>> /\ refine.ret[1].refinement_status = "failed"

\* every primary model and the secondary provider failed, and the fallback
\* model was called after them
C22_Witness ==
  /\ refine.pc = "done"
  /\ refine.dispatch = Some("failure")
  /\ Len(PrimaryAttempts) = Len(models) /\ Len(models) = MaxModels
  /\ SecondaryTried
  /\ Len(refine.extra) = 1
  /\ refine.ret[1].refinement_status = "success"

(* ============================ recipe cache ============================= *)
HitRow == extract.hit[1]
SteplessHit ==
  /\ extract.pc # "idle"
  /\ extract.hit # None
  /\ ParsedSteps(Some(HitRow.extracted_text)) = <<>>
SteplessFresh ==
  /\ extract.pc = "done"
  /\ extract.fresh # None
  /\ ParsedSteps(extract.fresh[1].recipe_text) = <<>>

\* a response with cached = true has steps
ServedFromCacheHasSteps ==
  (extract.pc = "done" /\ extract.response[1].cached = Some(TRUE)) =>
    extract.response[1].steps # <<>>
\* a cached row without steps is deleted and the recipe extracted again
SteplessHitIsReplaced ==
  SteplessHit =>
    /\ \A row \in extracted_recipes.rows : row.recipe_id # HitRow.recipe_id
    /\ extract.pc = "done" => extract.response[1].cached # Some(TRUE)
\* a freshly extracted recipe without steps is not inserted
SteplessFreshNotInserted ==
  SteplessFresh =>
    /\ extract.inserted = None
    /\ \A row \in extracted_recipes.rows : row.video = extract.video =>
         ParsedSteps(Some(row.extracted_text)) # <<>>
\* ... and is returned
SteplessFreshReturned ==
  SteplessFresh =>
    /\ extract.response[1].status = 200
    /\ extract.response[1].cached = Some(FALSE)
    /\ extract.response[1].recipe_text = extract.fresh[1].recipe_text

\* C23: a response with cached = true has non-empty steps; a cached row
\* whose text has no steps is deleted and the recipe extracted again; a
\* freshly extracted recipe with no steps is returned and never inserted
C23_CacheHoldsRecipesWithSteps ==
  /\ ServedFromCacheHasSteps
  /\ SteplessHitIsReplaced
  /\ SteplessFreshNotInserted
  /\ SteplessFreshReturned

(* ========================= layout rules cache ========================== *)
RowsOfDomain(rows, site_domain) == {row \in rows : row.site_domain = site_domain}
\* the rules of the call's domain were updated less than the expiry ago
\* when the call looked
UpdatedRecently ==
  \E row \in RowsOfDomain(analysis.seen, analysis.site_domain) :
    analysis.at - row.updated_at < cache_expiry_days

\* C24: analyze_layout serves from the cache exactly when the rules of the
\* domain were updated less than cache_expiry_days ago, and then returns
\* them with cached = True without fetching or calling the model; otherwise
\* it fetches, analyzes, upserts the rules and returns cached = False; the
\* table never holds two rows of one domain
C24_CachedWithinExpiry ==
  /\ analysis.pc # "idle" =>
       /\ UpdatedRecently <=> (analysis.pc = "returned" /\ analysis.ret[1].cached)
       /\ UpdatedRecently =>
            /\ ~analysis.fetched /\ ~analysis.analyzed
            /\ \E row \in RowsOfDomain(analysis.seen, analysis.site_domain) :
                 analysis.ret[1].rules = row.rules
            /\ layout_rules = analysis.seen
       /\ (analysis.pc = "returned" /\ ~analysis.ret[1].cached) =>
            /\ analysis.fetched /\ analysis.analyzed
            /\ \E row \in layout_rules :
                 /\ row.site_domain = analysis.site_domain
                 /\ row.rules = analysis.ret[1].rules
                 /\ Some(row.updated_at) = analysis.saved_at
  /\ \A r1, r2 \in layout_rules : r1.site_domain = r2.site_domain => r1 = r2

\* rules saved for www.cookpad.com are served to a call for cookpad.com one
\* instant later, and the table holds rows of two domains
C24_Witness ==
  /\ analysis.pc = "returned"
  /\ analysis.ret[1].cached
  /\ ~analysis.url.www
  /\ analysis.at > analysis.ret[1].updated_at[1]
  /\ Cardinality(layout_rules) = 2
  /\ \E row \in layout_rules : row.updated_at > row.created_at

(* ======================= the daily ranking batch ======================= *)
\* C25: when the calculation yields no entry for any period, the batch
\* returns False, has fetched no metadata and has left rankings,
\* rankings_old and rankings_temp as they were
C25_EmptyRankingSkipsBatch ==
  (daily.pc # "idle" /\ \A p \in 1..Len(Periods) : Len(daily.ranking_data[p]) = 0) =>
    /\ daily.pc = "done"
    /\ daily.ret = Some(FALSE)
    /\ ~daily.fetched
    /\ batch = IdleBatch
    /\ tables = daily.before

\* videos that are all older than a week, and a rankings table of earlier
\* runs that stays
C25_Witness ==
  /\ daily.pc = "done"
  /\ daily.ret = Some(FALSE)
  /\ ~daily.fetched
  /\ Len(videos) = MaxVideos
  /\ \A i \in 1..Len(videos) : videos[i].age > PeriodDays("weekly")
  /\ tables.rankings = Some(PreviousRows)
  /\ tables.rankings_old = Some(OlderRows)

\* the ids of a ranking list are pairwise different
UniqueIds(list) ==
  \A i, j \in 1..Len(list) : list[i][1] = list[j][1] => i = j
\* the next INSERT INTO rankings_temp of the running update
InsertPending ==
  /\ daily.pc = "updating"
  /\ batch.pc = "insert"
  /\ InsertedSoFar < Len(batch.items)

\* C26: each unique_video_id occurs at most once in every calculated list,
\* and no insert of the table update violates UNIQUE(unique_video_id,
\* period_type), whatever rows the videos table holds
C26_ListsHaveUniqueIds ==
  /\ daily.pc # "idle" => \A p \in 1..Len(Periods) : UniqueIds(daily.ranking_data[p])
  /\ InsertPending => ~ViolatesUnique(batch.view.rankings_temp[1], NextRow)

(* ======================= folder suggestions ============================ *)
\* the entries of the result whose video_id is vid, and the input videos
\* with that id
ResultsFor(vid) == {i \in 1..Len(suggest.all_results) : suggest.all_results[i].video_id = vid}
InputsWith(vid) == {i \in 1..Len(suggest.videos) : suggest.videos[i] = vid}
SuggestedForFolders ==
  suggest.pc = "done" /\ suggest.videos # <<>> /\ suggest.folders # <<>>

\* C27: with non-empty videos and non-empty folders suggest_folders_batch
\* returns success with exactly one result entry per input video, whatever
\* each batch met
C27_OneResultPerVideo ==
  SuggestedForFolders =>
    /\ suggest.success
    /\ Len(suggest.all_results) = Len(suggest.videos)
    /\ \A vid \in SuggestedIds :
         Cardinality(ResultsFor(vid)) = Cardinality(InputsWith(vid))

\* two batches, completed in the opposite order of their submission
C27_Witness ==
  /\ SuggestedForFolders
  /\ Len(suggest.futures) = 2
  /\ Len(suggest.videos) = MaxSuggested
  /\ suggest.all_results[1].video_id # suggest.videos[1]
  /\ \E i \in 1..Len(suggest.all_results) : suggest.all_results[i].reason = "system error"
  /\ \E i \in 1..Len(suggest.all_results) : suggest.all_results[i].reason = "skipped"

(* ======================= ingredients of the shopping list ============== *)
\* the ingredients whose entry is emitted and whose categorization failed:
\* the dispatcher failed, the response was unparseable, or
\* categorize_ingredient met an exception
FailedCategorizations ==
  {k \in 1..Len(shopping.results) :
     shopping.met[k] \in {"raises", "failure", "unparseable"}}
\* None, or a value the model gave as category_id
IsCategoryIdentifier(category_id) == category_id.t \in {"None", "int", "str"}

\* C28: a failed categorization gives an entry with category_id None and
\* error 'Categorization failed' and no generate_master_name call, and the
\* category_id of every entry is None or a category identifier
C28_FailedCategorizationReported ==
  shopping.pc # "idle" =>
    /\ \A k \in FailedCategorizations :
         /\ shopping.results[k].category_id = PyNone
         /\ shopping.results[k].error = Some("Categorization failed")
         /\ k \notin shopping.master_calls
    /\ \A k \in 1..Len(shopping.results) :
         IsCategoryIdentifier(shopping.results[k].category_id)

\* C28 for the failures that categorize_ingredient reports by None
C28_ReportedFailures ==
  shopping.pc # "idle" =>
    \A k \in 1..Len(shopping.results) :
      shopping.met[k] \in {"failure", "unparseable"} =>
        /\ shopping.results[k].category_id = PyNone
        /\ shopping.results[k].error = Some("Categorization failed")
        /\ k \notin shopping.master_calls

(* ======================= the video dispatch ============================ *)
\* analyze_video_url has returned failure
VideoFailed == pc = "video_returned" /\ ~result.success
\* the provider calls of the failed video dispatch: one per model of the
\* list, in list order, none answered, none to the secondary provider
VideoCallsInOrder ==
  /\ Len(attempts) = Len(models)
  /\ \A i \in 1..Len(attempts) :
       /\ attempts[i].provider = models[i]
       /\ attempts[i].index = i
       /\ ~IsSecondary(attempts[i])
       /\ ~Answered(attempts[i].outcome)
\* the error of the last call, None when no call was made
LastVideoError ==
  IF attempts = <<>> THEN None
  ELSE VideoLastError(models[Len(models)], attempts[Len(attempts)].outcome)
VideoFailureReported ==
  /\ VideoCallsInOrder
  /\ Len(written) = written_before
  /\ result.error = IF Truthy(LastVideoError) THEN LastVideoError[1]
                    ELSE "All video models failed"
  /\ models = <<>> => attempts = <<>> /\ result.error = "All video models failed"

\* C29: analyze_video_url without a model list dispatches over the empty
\* default registry: no provider call, no usage record, failure with 'All
\* video models failed'; with a list it calls the models in order, never
\* the secondary provider, and returns failure with the last error once
\* the list is exhausted
C29_VideoDispatch ==
  [][ /\ AnalyzeVideoStart(None) => models' = <<>>
      /\ VideoFailed' => VideoFailureReported' ]_vars

\* a list of MaxModels models, each called once and failed, the error of
\* the last one returned
C29_Witness ==
  /\ VideoFailed
  /\ Len(models) = MaxModels
  /\ Len(attempts) = MaxModels
  /\ gemini_key
  /\ result.error # "All video models failed"
  /\ result.error = LastVideoError[1]

(* ======================= termination of the dispatch =================== *)
Dispatching == pc \in {"loop", "calling", "generating"}
SecondaryAttempts == SelectSeq(attempts, IsSecondary)

\* C30: a chat_completion call with credentials set makes at most
\* len(models) primary calls and one secondary call and, every provider
\* call returning or timing out, eventually returns success or failure
C30_DispatchTerminates ==
  /\ [](/\ Len(PrimaryAttempts) <= Len(models)
        /\ Len(SecondaryAttempts) <= 1)
  /\ Dispatching ~> (pc = "returned" /\ result.success \in BOOLEAN)

\* the longest dispatch: every model of the list and the secondary
\* provider were called, and the call has returned
C30_Witness ==
  /\ pc = "returned"
  /\ Len(models) = MaxModels
  /\ Len(PrimaryAttempts) = MaxModels
  /\ Len(SecondaryAttempts) = 1

====
